---- MODULE Spec2Model ----
(***************************************************************************)
(* Viewpoint lifecycle of the OSML tile server: the DynamoDB status table, *)
(* the SQS request queue and its dead-letter queue, the HTTP handlers of   *)
(* both router generations kept in the repository (viewpoint/routers.py    *)
(* and viewpoint/router.py with viewpoint_id/router.py), the background    *)
(* ViewpointWorker and the dead-letter cleanup lambda.                     *)
(*                                                                         *)
(* Time is counted in days.  viewpoint_name stands for the three fields    *)
(* (viewpoint_name, tile_size, range_adjustment) that create copies from   *)
(* the request, update overwrites and the queue message snapshots; the     *)
(* code treats the three alike.  bucket_name and object_key are immutable  *)
(* and do not influence any branch modelled here.                          *)
(***************************************************************************)
EXTENDS Integers, FiniteSets, Sequences, TLC

\* ---- bounds ----
MaxMsgs == 1
MaxNow == 1
NumThreads == 2
MaxHandles == 3
MaxItems == 3
MaxLimit == 3
ScanPage == 2
MaxZ == 2
MaxXY == 2
MaxCalls == 4
NumWorkers == 2
MaxBatch == 2
NumHandlers == 2

\* ---- program constants ----
DdbTtlDays == 1
FailedTtlDays == 1
DeletedTtlDays == 1
DlqTtlDays == 1
TokenTtlDays == 1
EndpointVersion == 1
max_retries == 3
maxsize == 20

\* The table is keyed by viewpoint_id and no operation touches two keys, so
\* one key is followed.
Ids == {"vp"}
Mids == 1..MaxMsgs
\* Request bodies: the create requests carry one body, the update requests
\* either keep it or change it.
CreateNames == {"a"}
Names == {"a", "b"}

\* None of a string field, None of expire_time, an attribute the item lacks.
NULL == "NULL"
NoTime == -1
MISSING == "MISSING"

ViewpointStatus == {"NOT_FOUND", "REQUESTED", "UPDATING", "READY", "DELETED", "FAILED"}
ViewpointApiNames ==
    {"update", "describe", "metadata", "bounds", "info", "tile", "preview", "crop", "statistics"}

SidecarOps == {"metadata", "bounds", "info", "statistics"}
PixelOps == {"preview", "tile", "crop"}
ImageOps == SidecarOps \cup PixelOps

VARIABLES
    api,            \* router generation mounted by the application
    table,          \* DynamoDB status table: id -> item or ABSENT
    queue,          \* SQS request queue: messages not yet deleted
    dlq,            \* dead-letter queue
    delivered,      \* ids of the messages handed to the worker at least once
    nextMsg,        \* next SQS message id
    disk,           \* per id: files under /<efs>/<viewpoint_id>/
    now,            \* clock, in days
    resp,           \* response of the HTTP request served by the last step, if any
    wlast,          \* what _process_message did in the last step, if it ran
    enqueue_failed, \* ids whose inserting create logged a failed enqueue
    was_deleted,    \* ids on which a delete request has succeeded
    v_in,           \* input of the status gate evaluated on its own
    v_out,          \* its result
    current_inventory, \* TileFactoryPool: the idle tile factories, oldest first
    total_inventory,   \* TileFactoryPool: the tile factories counted as created
    opened,            \* datasets loaded by checkout so far
    peak,              \* most threads inside checkout_in_context at one time
    rt,                \* the latest checkout of the pool and the return of its handle
    thr,               \* per request thread: its place in checkout_in_context
    lock,              \* TileFactoryPool.lock: the thread that owns it, or none
    ddb_items,      \* listing: the items of the status table in scan order
    max_results,    \* listing: the max_results of the client's list calls
    held_token,     \* listing: the next_token the client received last
    listed,         \* listing: the records the client has received so far
    l_pc,           \* listing: "start", "more" pages to fetch, "done" or "failed"
    utc_now,        \* listing: the clock of the list handler, in days
    l_resp,         \* listing: the last list call and its response
    tile_request,   \* tile math: z, x, y of a tile request and the viewpoint's tile_size
    tile_call,      \* tile math: the create_encoded_tile call the request made
    endpoint_request,  \* gated endpoint: router generation, endpoint, stored status
    endpoint_response, \* gated endpoint: status code and detail sent to the caller
    attempt_outcomes,  \* download retry: how each download_file call of one message would end
    retry_count,  \* download retry: retry_count of _download_s3_file_to_local_tmp
    dl_calls,  \* download retry: download_file calls made
    dl_result, \* download retry: the tuple returned, once the loop has ended
    pyramid_in,  \* create_tile_pyramid: files present, stop_event, and how GDAL behaves
    pyramid_pc,  \* create_tile_pyramid: the statement reached
    pyramid_log, \* create_tile_pyramid: the dataset operations done so far, in order
    lru,  \* get_tile_factory_pool: the cached (key, pool) links, least recently used first
    made,  \* TileFactoryPool instances constructed so far
    tick,  \* cache: a clock that advances with every step of a call
    used_at,  \* cache: per key, the time of its latest hit or insertion
    ret_of,  \* cache: per key, the pool returned by the call that cached it
    caller,  \* per thread: its place in get_tile_factory_pool
    cache_resp, \* the latest return of get_tile_factory_pool
    f_body,  \* fleet: the viewpoint_status in the body of the one request message
    f_queue,  \* fleet: whether that message is on the queue, and visible to receive_messages
    f_table,  \* fleet: the viewpoint_status of the record in the table
    fleet, \* per worker instance: its place in run / _process_message and the stages it performed
    stop_event,  \* ViewpointWorker.stop_event
    run_pc,  \* ViewpointWorker.run: its place in the loop
    messages,  \* run: the messages of the current batch that the for loop has not reached
    rq,  \* run: the messages on the request queue
    handled,  \* run: per message, how its latest processing ended
    late_polls, \* run: receive_messages calls begun after stop_event was set
    h_api,  \* concurrent requests: the router generation that serves them
    h_table,  \* concurrent requests: the status table
    h_sent,  \* concurrent requests: the handlers whose send_request put a message on the queue
    h_puts,  \* concurrent requests: the put_item calls made
    handler  \* per request thread: the operation, its place in the handler, the item it holds, its answer

lifecycleVars == <<api, table, queue, dlq, delivered, nextMsg, disk, now, resp, wlast,
                   enqueue_failed, was_deleted>>
gateVars == <<v_in, v_out>>
poolVars == <<current_inventory, total_inventory, opened, peak, rt, thr, lock>>
listVars == <<ddb_items, max_results, held_token, listed, l_pc, utc_now, l_resp>>
tileVars == <<tile_request, tile_call>>
endpointVars == <<endpoint_request, endpoint_response>>
downloadVars == <<attempt_outcomes, retry_count, dl_calls, dl_result>>
pyramidVars == <<pyramid_in, pyramid_pc, pyramid_log>>
cacheVars == <<lru, made, tick, used_at, ret_of, caller, cache_resp>>
fleetVars == <<f_body, f_queue, f_table, fleet>>
runVars == <<stop_event, run_pc, messages, rq, handled, late_polls>>
raceVars == <<h_api, h_table, h_sent, h_puts, handler>>
sideVars == <<gateVars, poolVars, listVars, tileVars, endpointVars, downloadVars, pyramidVars, cacheVars, fleetVars, runVars, raceVars>>
besidesGate == <<lifecycleVars, poolVars, listVars, tileVars, endpointVars, downloadVars, pyramidVars, cacheVars, fleetVars, runVars, raceVars>>
besidesPool == <<lifecycleVars, gateVars, listVars, tileVars, endpointVars, downloadVars, pyramidVars, cacheVars, fleetVars, runVars, raceVars>>
besidesList == <<lifecycleVars, gateVars, poolVars, tileVars, endpointVars, downloadVars, pyramidVars, cacheVars, fleetVars, runVars, raceVars>>
besidesTile == <<lifecycleVars, gateVars, poolVars, listVars, endpointVars, downloadVars, pyramidVars, cacheVars, fleetVars, runVars, raceVars>>
besidesEndpoint == <<lifecycleVars, gateVars, poolVars, listVars, tileVars, downloadVars, pyramidVars, cacheVars, fleetVars, runVars, raceVars>>
besidesDownload == <<lifecycleVars, gateVars, poolVars, listVars, tileVars, endpointVars, pyramidVars, cacheVars, fleetVars, runVars, raceVars>>
besidesPyramid == <<lifecycleVars, gateVars, poolVars, listVars, tileVars, endpointVars, downloadVars, cacheVars, fleetVars, runVars, raceVars>>
besidesCache == <<lifecycleVars, gateVars, poolVars, listVars, tileVars, endpointVars, downloadVars, pyramidVars, fleetVars, runVars, raceVars>>
besidesFleet == <<lifecycleVars, gateVars, poolVars, listVars, tileVars, endpointVars, downloadVars, pyramidVars, cacheVars, runVars, raceVars>>
besidesRun == <<lifecycleVars, gateVars, poolVars, listVars, tileVars, endpointVars, downloadVars, pyramidVars, cacheVars, fleetVars, raceVars>>
besidesRace == <<lifecycleVars, gateVars, poolVars, listVars, tileVars, endpointVars, downloadVars, pyramidVars, cacheVars, fleetVars, runVars>>
vars == <<lifecycleVars, sideVars>>

\* ------------------------------------------------------------------------
\* models.py / routers.py: the status gate
\* ------------------------------------------------------------------------

\* A mutation of the gate that exchanges the two rejection reasons.
validate_viewpoint_status_swapped(current_status, api_operation) ==
    IF current_status = "DELETED" THEN "not_ready"
    ELSE IF current_status = "REQUESTED" THEN "deleted"
    ELSE "pass"

\* "deleted": raises "... has already been deleted."
\* "not_ready": raises "... not in READY state. Please try again later."
\* "pass": returns None.
validate_viewpoint_status(current_status, api_operation) ==
    IF current_status = "DELETED" THEN "deleted"
    ELSE IF current_status = "REQUESTED" THEN "not_ready"
    ELSE "pass"

\* ViewpointRouter._validate_viewpoint_status: same branches, HTTPException 404 / 400.
ViewpointRouter_validate_viewpoint_status(current_status, api_operation) ==
    IF current_status = "DELETED" THEN "deleted"
    ELSE IF current_status = "REQUESTED" THEN "not_ready"
    ELSE "pass"

Gate(impl, current_status, api_operation) ==
    IF impl = "routers"
    THEN ViewpointRouter_validate_viewpoint_status(current_status, api_operation)
    ELSE validate_viewpoint_status(current_status, api_operation)

\* ------------------------------------------------------------------------
\* services/database.py, viewpoint/database.py: ViewpointStatusTable
\* ------------------------------------------------------------------------

ViewpointModel(status, name, path, err, expire) ==
    [viewpoint_status |-> status, viewpoint_name |-> name, local_object_path |-> path,
     error_message |-> err, expire_time |-> expire]

\* The table holds no item under the key.
ABSENT == ViewpointModel("ABSENT", MISSING, MISSING, MISSING, NoTime)

\* An item validates as a ViewpointModel only if it carries every field.
IsComplete(item) ==
    /\ item # ABSENT
    /\ item.viewpoint_name # MISSING
    /\ item.local_object_path # MISSING
    /\ item.error_message # MISSING

\* A mutation of get_viewpoint that never finds the item.
get_viewpoint_never(t, id) == FALSE

\* get_viewpoint returns the model when the item exists and validates, and
\* raises HTTPException 500 otherwise (KeyError on "Item", validation error).
get_viewpoint_ok(t, id) == IsComplete(t[id])

\* create_viewpoint: put_item replaces the whole item.
ViewpointStatusTable_create_viewpoint(t, id, item) == [t EXCEPT ![id] = item]

\* update_viewpoint: update_item SET of every non-key attribute; DynamoDB
\* creates the item when the key is absent.
ViewpointStatusTable_update_viewpoint(t, id, item) == [t EXCEPT ![id] = item]

\* delete_viewpoint: delete_item.
ViewpointStatusTable_delete_viewpoint(t, id) == [t EXCEPT ![id] = ABSENT]

\* ------------------------------------------------------------------------
\* responses and bookkeeping
\* ------------------------------------------------------------------------

Response(op, id, outcome, record) ==
    [op |-> op, id |-> id, outcome |-> outcome, record |-> record]

NoRecord == ViewpointModel("NONE", MISSING, MISSING, MISSING, NoTime)

NoResp == Response("none", "none", "none", NoRecord)

\* kind: "skipped" or "processed"; ran: the pipeline stages that were called;
\* redelivery: the message had been handed to the worker before; before: the
\* stored status when the call began; written: the item handed to the table
\* update; persisted: that update returned; deleted: message.delete() returned.
Work(kind, mid, id, ran, failed, redelivery, before, written, persisted, deleted) ==
    [kind |-> kind, mid |-> mid, id |-> id, ran |-> ran, stage_failed |-> failed,
     redelivery |-> redelivery, before |-> before, written |-> written,
     persisted |-> persisted, deleted |-> deleted]

NoWork == Work("none", 0, "none", {}, FALSE, FALSE, "NONE", NoRecord, FALSE, FALSE)

Message(mid, id, item) == [mid |-> mid, viewpoint_id |-> id, body |-> item]

\* ------------------------------------------------------------------------
\* start values of the parts of the state
\* ------------------------------------------------------------------------

Threads == 1..NumThreads
NoHandle == 0
NoThread == 0

\* pc: "idle" outside checkout_in_context, "open" in load_gdal_dataset,
\* "count" before total_inventory is raised, "body" inside the with block.
\* tf: the tile factory held.  round, prev: whether the checkout that began
\* this context directly followed the return of the handle prev of the
\* checkout before it, and whether the idle list was empty at that return.
\* last: how the last context ended.
ThreadIdle == [pc |-> "idle", tf |-> NoHandle, round |-> "none", prev |-> NoHandle,
               last |-> "none"]

\* by: the thread of the latest checkout; h: the handle it obtained; back:
\* h has been checked in since; alone: the idle list was empty at that time.
NoCheckout == [by |-> 0, h |-> NoHandle, back |-> FALSE, alone |-> FALSE]

LifecycleIdle ==
    /\ api = "routers"
    /\ table = [id \in Ids |-> ABSENT]
    /\ queue = {}
    /\ dlq = {}
    /\ delivered = {}
    /\ nextMsg = 1
    /\ disk = [id \in Ids |-> {}]
    /\ now = 0
    /\ resp = NoResp
    /\ wlast = NoWork
    /\ enqueue_failed = {}
    /\ was_deleted = {}

GateIdle ==
    /\ v_in = [impl |-> "models", status |-> "READY", op |-> "describe"]
    /\ v_out = "idle"

\* TileFactoryPool.__init__
PoolIdle ==
    /\ current_inventory = <<>>
    /\ total_inventory = 0
    /\ opened = 0
    /\ peak = 0
    /\ rt = NoCheckout
    /\ thr = [t \in Threads |-> ThreadIdle]
    /\ lock = NoThread

\* No list call has been made.
NoToken == [sealed |-> FALSE, plain |-> <<>>]
NoListResp == [tok |-> NoToken, at |-> 0, status |-> 0, detail |-> "none",
               scanned |-> FALSE, items |-> <<>>, next_token |-> NoToken]

ListIdle ==
    /\ ddb_items = <<>>
    /\ max_results = 0
    /\ held_token = NoToken
    /\ listed = <<>>
    /\ l_pc = "start"
    /\ utc_now = 0
    /\ l_resp = NoListResp

\* No tile has been requested.
NoTileCall == [status |-> 0, src_window |-> <<>>, output_size |-> <<>>]

TileIdle ==
    /\ tile_request = [z |-> 0, x |-> 0, y |-> 0, tile_size |-> 256]
    /\ tile_call = NoTileCall

\* No gated endpoint has been called.
HttpResponse(code, op, reason) == [status_code |-> code, op |-> op, reason |-> reason]

NoHttpResponse == HttpResponse(0, NULL, NULL)

EndpointIdle ==
    /\ endpoint_request = [impl |-> "routers", endpoint |-> "metadata", status |-> "READY"]
    /\ endpoint_response = NoHttpResponse

\* returned: the while loop has ended; viewpoint_status, error_message: the
\* two locals it returns.
DownloadResult(returned, status, message) ==
    [returned |-> returned, viewpoint_status |-> status, error_message |-> message]

DownloadPending == DownloadResult(FALSE, NULL, NULL)

\* _download_s3_file_to_local_tmp has not been called.
DownloadIdle ==
    /\ attempt_outcomes = [n \in 1..max_retries |-> "ok"]
    /\ retry_count = 0
    /\ dl_calls = 0
    /\ dl_result = DownloadPending

\* create_tile_pyramid has not been called.
PyramidIdle ==
    /\ pyramid_in = [aux |-> FALSE, ovr |-> FALSE, stop |-> FALSE, idle |-> FALSE,
                     statsOk |-> TRUE, openOk |-> TRUE, tileOk |-> TRUE]
    /\ pyramid_pc = "idle"
    /\ pyramid_log = <<>>

\* The keys (format, compression, path, output type, range adjustment) that
\* calls of get_tile_factory_pool may carry: one more than the cache holds.
CacheKeys == 1..(maxsize + 1)
NoKeyCached == 0
NoPool == 0
CallerIdle == [pc |-> "idle", key |-> NoKeyCached]
NoCacheResp == [t |-> NoThread, key |-> NoKeyCached, pool |-> NoPool, hit |-> FALSE,
                evicted |-> NoKeyCached]

\* The cache of get_tile_factory_pool is empty and no call is under way.
CacheIdle ==
    /\ lru = <<>>
    /\ made = 0
    /\ tick = 0
    /\ used_at = [k \in CacheKeys |-> 0]
    /\ ret_of = [k \in CacheKeys |-> NoPool]
    /\ caller = [t \in Threads |-> CallerIdle]
    /\ cache_resp = NoCacheResp

\* The tile server instances that poll one request queue, each with one
\* ViewpointWorker thread.
Workers == 1..NumWorkers
WorkerIdle == [pc |-> "poll", done |-> {}]
NoFleetMessage == [present |-> FALSE, visible |-> FALSE]

\* No request message is on the queue and every worker instance is polling.
FleetIdle ==
    /\ f_body = "REQUESTED"
    /\ f_queue = NoFleetMessage
    /\ f_table = "REQUESTED"
    /\ fleet = [w \in Workers |-> WorkerIdle]

\* The messages that the request queue holds when the worker starts.
BatchIds == 1..MaxBatch

\* The worker thread has not been started.
RunIdle ==
    /\ stop_event = FALSE
    /\ run_pc = "new"
    /\ messages = <<>>
    /\ rq = {}
    /\ handled = [m \in BatchIds |-> "none"]
    /\ late_polls = 0

\* The request threads of the server that serve requests for one
\* viewpoint_id at the same time.
Handlers == 1..NumHandlers
HandlerIdle == [op |-> "none", pc |-> "done", item |-> NoRecord, out |-> "none"]

\* No request is being served.
RaceIdle ==
    /\ h_api = "routers"
    /\ h_table = [id \in Ids |-> ABSENT]
    /\ h_sent = {}
    /\ h_puts = 0
    /\ handler = [r \in Handlers |-> HandlerIdle]

Init ==
    /\ api \in {"routers", "router"}
    /\ table = [id \in Ids |-> ABSENT]
    /\ queue = {}
    /\ dlq = {}
    /\ delivered = {}
    /\ nextMsg = 1
    /\ disk = [id \in Ids |-> {}]
    /\ now = 0
    /\ resp = NoResp
    /\ wlast = NoWork
    /\ enqueue_failed = {}
    /\ was_deleted = {}
    /\ GateIdle
    /\ PoolIdle
    /\ ListIdle
    /\ TileIdle
    /\ EndpointIdle
    /\ DownloadIdle
    /\ PyramidIdle
    /\ CacheIdle
    /\ FleetIdle
    /\ RunIdle
    /\ RaceIdle

Tick ==
    /\ now < MaxNow
    /\ now' = now + 1
    /\ resp' = NoResp
    /\ wlast' = NoWork
    /\ UNCHANGED <<api, table, queue, dlq, delivered, nextMsg, disk,
                   enqueue_failed, was_deleted, sideVars>>

\* ------------------------------------------------------------------------
\* viewpoint/router.py, viewpoint/routers.py: HTTP handlers
\* ------------------------------------------------------------------------

\* services/queue.py send_request: send_message; a ClientError is only logged.
send_request(q, msg, enqOk) == IF enqOk THEN q \cup {msg} ELSE q

\* POST /viewpoints (the same code in both generations).
create_viewpoint(id, name, enqOk) ==
    LET new == ViewpointModel("REQUESTED", name, NULL, NULL, now + DdbTtlDays)
        msg == Message(nextMsg, id, new)
    IN  IF get_viewpoint_ok(table, id)
        THEN /\ resp' = Response("create", id, "202", table[id])
             /\ wlast' = NoWork
             /\ UNCHANGED <<api, table, queue, dlq, delivered, nextMsg, disk, now, enqueue_failed, was_deleted, sideVars>>
        ELSE /\ enqOk => nextMsg <= MaxMsgs
             /\ table' = ViewpointStatusTable_create_viewpoint(table, id, new)
             /\ queue' = send_request(queue, msg, enqOk)
             /\ nextMsg' = IF enqOk THEN nextMsg + 1 ELSE nextMsg
             /\ enqueue_failed' = IF enqOk THEN enqueue_failed \ {id}
                                  ELSE enqueue_failed \cup {id}
             /\ resp' = Response("create", id, "201", new)
             /\ wlast' = NoWork
             /\ UNCHANGED <<api, dlq, delivered, disk, now, was_deleted, sideVars>>

\* PUT /viewpoints (the same code in both generations).
update_viewpoint(id, name) ==
    /\ IF ~get_viewpoint_ok(table, id)
       THEN /\ resp' = Response("update", id, "error", NoRecord)
            /\ UNCHANGED table
       ELSE LET gate == Gate(api, table[id].viewpoint_status, "update")
                item == [table[id] EXCEPT !.viewpoint_name = name]
            IN  IF gate # "pass"
                THEN /\ resp' = Response("update", id, gate, NoRecord)
                     /\ UNCHANGED table
                ELSE /\ table' = ViewpointStatusTable_update_viewpoint(table, id, item)
                     /\ resp' = Response("update", id, "201", item)
    /\ wlast' = NoWork
    /\ UNCHANGED <<api, queue, dlq, delivered, nextMsg, disk, now, enqueue_failed, was_deleted, sideVars>>

\* GET /viewpoints/{id} (the same code in both generations).
describe_viewpoint(id) ==
    /\ resp' = IF get_viewpoint_ok(table, id)
               THEN Response("describe", id, "200", table[id])
               ELSE Response("describe", id, "error", NoRecord)
    /\ wlast' = NoWork
    /\ UNCHANGED <<api, table, queue, dlq, delivered, nextMsg, disk, now, enqueue_failed, was_deleted, sideVars>>

\* DELETE /viewpoints/{id} of viewpoint/routers.py: marks the item DELETED.
\* Path(None) raises TypeError before anything is changed.
ViewpointRouter_delete_viewpoint(id) ==
    /\ api = "routers"
    /\ IF ~get_viewpoint_ok(table, id)
       THEN /\ resp' = Response("delete", id, "error", NoRecord)
            /\ UNCHANGED <<table, disk, was_deleted>>
       ELSE LET gate == ViewpointRouter_validate_viewpoint_status(
                            table[id].viewpoint_status, "update")
                item == [table[id] EXCEPT !.viewpoint_status = "DELETED",
                                          !.local_object_path = NULL,
                                          !.expire_time = now + DeletedTtlDays]
            IN  IF gate # "pass"
                THEN /\ resp' = Response("delete", id, gate, NoRecord)
                     /\ UNCHANGED <<table, disk, was_deleted>>
                ELSE IF table[id].local_object_path = NULL
                THEN /\ resp' = Response("delete", id, "error", NoRecord)
                     /\ UNCHANGED <<table, disk, was_deleted>>
                ELSE /\ disk' = [disk EXCEPT ![id] = {}]
                     /\ table' = ViewpointStatusTable_update_viewpoint(table, id, item)
                     /\ was_deleted' = was_deleted \cup {id}
                     /\ resp' = Response("delete", id, "200", item)
    /\ wlast' = NoWork
    /\ UNCHANGED <<api, queue, dlq, delivered, nextMsg, now, enqueue_failed, sideVars>>

\* DELETE /viewpoints/{id} of viewpoint/viewpoint_id/router.py: removes the item.
delete_viewpoint(id) ==
    /\ api = "router"
    /\ IF ~get_viewpoint_ok(table, id)
       THEN /\ resp' = Response("delete", id, "not_found", NoRecord)
            /\ UNCHANGED <<table, disk, was_deleted>>
       ELSE LET gate == validate_viewpoint_status(table[id].viewpoint_status, "update")
            IN  IF gate # "pass"
                THEN /\ resp' = Response("delete", id, gate, NoRecord)
                     /\ UNCHANGED <<table, disk, was_deleted>>
                ELSE IF table[id].local_object_path = NULL
                THEN /\ resp' = Response("delete", id, "error", NoRecord)
                     /\ UNCHANGED <<table, disk, was_deleted>>
                ELSE /\ disk' = [disk EXCEPT ![id] = {}]
                     /\ table' = ViewpointStatusTable_delete_viewpoint(table, id)
                     /\ was_deleted' = was_deleted \cup {id}
                     /\ resp' = Response("delete", id, "204", NoRecord)
    /\ wlast' = NoWork
    /\ UNCHANGED <<api, queue, dlq, delivered, nextMsg, now, enqueue_failed, sideVars>>

\* What an image endpoint does once the gate let the request through.
\* Sidecar endpoints return FileResponse(local_object_path + extension);
\* pixel endpoints check a tile factory out of the pool for local_object_path.
ServeImage(op, item, files) ==
    IF item.local_object_path = NULL THEN "error"
    ELSE IF op \in SidecarOps
         THEN (IF "sidecar" \in files THEN "served_file" ELSE "error")
         ELSE (IF "image" \in files THEN "served_pixels" ELSE "error")

\* GET /viewpoints/{id}/image/{metadata|bounds|info|statistics|preview|tiles|crop}
get_image(op, id) ==
    /\ resp' = IF ~get_viewpoint_ok(table, id)
               THEN Response(op, id, "error", NoRecord)
               ELSE LET gate == Gate(api, table[id].viewpoint_status, op)
                    IN  IF gate # "pass"
                        THEN Response(op, id, gate, NoRecord)
                        ELSE Response(op, id, ServeImage(op, table[id], disk[id]), NoRecord)
    /\ wlast' = NoWork
    /\ UNCHANGED <<api, table, queue, dlq, delivered, nextMsg, disk, now, enqueue_failed, was_deleted, sideVars>>

\* ------------------------------------------------------------------------
\* viewpoint/worker.py: ViewpointWorker
\* ------------------------------------------------------------------------

\* Outcome of download_image in the life cycle of a viewpoint: the primary
\* download succeeds, it fails (a ClientError stands for every failure; the
\* worker taken alone goes through each of S3Outcomes), or the download of
\* a sidecar raises.
DownloadOutcomes == {"ok", "client_error", "sidecar_raises"}

\* Every way download_file ends: the object arrives, S3 answers 404, 403 or
\* another error code (ClientError, not retried), or each of the max_retries
\* attempts raises another exception.
\* "sidecar_raises": the object arrives and the download of an optional
\* sidecar then raises an exception that is no ClientError.
S3Outcomes == {"ok", "not_found", "forbidden", "client_error", "exception", "sidecar_raises"}

\* _download_supplementary_file catches ClientError only; any other
\* exception of download_file leaves download_image and _process_message.
sidecar_escapes(dl) == dl = "sidecar_raises"

\* Outcome of the two calls that end _process_message: both return, the
\* table update raises HTTPException, or message.delete() raises ClientError.
AckOutcomes == {"ok", "update_raises", "delete_raises"}

\* The item and the files of its directory, as one pipeline stage hands
\* them to the next.
Stage(item, files) == [item |-> item, files |-> files]

Fail(item, message) ==
    [item EXCEPT !.viewpoint_status = "FAILED", !.error_message = message]

\* _download_s3_file_to_local_tmp: None on success, else the error message.
download_s3_file_to_local_tmp(dl) ==
    IF dl \in {"ok", "sidecar_raises"} THEN NULL
    ELSE IF dl = "not_found" THEN "s3_cannot_process_request_bucket_does_not_exist"
    ELSE IF dl = "forbidden" THEN "s3_cannot_process_request_no_permission"
    ELSE IF dl = "client_error" THEN "s3_cannot_process_request"
    ELSE "s3_something_went_wrong"

\* download_image: sets local_object_path, downloads the object and, only
\* after a successful download, the optional overview sidecar.
download_image(st, dl, ovrS3) ==
    LET item == [st.item EXCEPT !.local_object_path = "path"]
        error == download_s3_file_to_local_tmp(dl)
    IN  IF error # NULL
        THEN Stage(Fail(item, error), st.files)
        ELSE Stage(item, st.files \cup {"image"} \cup (IF ovrS3 THEN {"ovr"} ELSE {}))

\* create_tile_pyramid: opens the dataset through the pool; builds the
\* overviews and encodes the sample tile only when no overview file exists;
\* "Image is empty." when no sample tile was encoded; any exception marks
\* the item FAILED.
create_tile_pyramid(st, tileOk) ==
    IF "image" \in st.files /\ tileOk /\ "ovr" \notin st.files
    THEN Stage(st.item, st.files \cup {"ovr"})
    ELSE Stage(Fail(st.item, "unable_to_create_sample_tile"), st.files)

\* extract_metadata: writes the four sidecar files; any exception marks the
\* item FAILED.
extract_metadata(st, metaOk) ==
    IF "image" \in st.files /\ metaOk
    THEN Stage(st.item, st.files \cup {"sidecar"})
    ELSE Stage(Fail(st.item, "unable_to_extract_metadata"), st.files)

\* A mutation of _update_status that keeps the expire_time of the message.
update_status_keep_expire(item, t) ==
    IF item.viewpoint_status = "FAILED"
    THEN item
    ELSE [item EXCEPT !.viewpoint_status = "READY"]

\* _update_status: the item handed to the table's update_viewpoint.
update_status(item, t) ==
    IF item.viewpoint_status = "FAILED"
    THEN [item EXCEPT !.expire_time = t + FailedTtlDays]
    ELSE [item EXCEPT !.viewpoint_status = "READY"]

\* A mutation of the status test that lets every status through.
is_requested_any(item) == TRUE

is_requested(item) == item.viewpoint_status = "REQUESTED"

\* A mutation of the entry check that turns every message away.
should_process_never(m, t) == FALSE

\* The entry check of _process_message reads the status in the message body.
should_process(m, t) == is_requested(m.body)

\* A mutation that calls message.delete() although the update raised.
message_delete_unconditional(q, m, ack) == IF ack # "delete_raises" THEN q \ {m} ELSE q

\* message.delete() is the statement after _update_status: it is reached
\* only when the update returned, and takes the message off the queue
\* unless it raises.
message_delete(q, m, ack) == IF ack = "ok" THEN q \ {m} ELSE q

\* run() hands one received message to _process_message.  An exception of
\* a sidecar download, of the table update or of message.delete() is caught
\* and logged by run().
process_message(m, dl, ovrS3, tileOk, metaOk, ack) ==
    LET id == m.viewpoint_id
        updOk == ack # "update_raises"
        delOk == ack = "ok"
        s1 == download_image(Stage(m.body, disk[id]), dl, ovrS3)
        s2 == create_tile_pyramid(s1, tileOk)
        s3 == extract_metadata(s2, metaOk)
        item == update_status(s3.item, now)
    IN  /\ m \in queue
        /\ delivered' = delivered \cup {m.mid}
        /\ IF ~should_process(m, table)
           THEN /\ wlast' = Work("skipped", m.mid, id, {}, FALSE, m.mid \in delivered,
                                 table[id].viewpoint_status, NoRecord, FALSE, FALSE)
                /\ UNCHANGED <<table, queue, disk>>
           ELSE IF sidecar_escapes(dl)
           THEN /\ disk' = [disk EXCEPT ![id] = s1.files]
                /\ wlast' = Work("aborted", m.mid, id, {"download"}, FALSE, m.mid \in delivered,
                                 table[id].viewpoint_status, NoRecord, FALSE, FALSE)
                /\ UNCHANGED <<table, queue>>
           ELSE /\ disk' = [disk EXCEPT ![id] = s3.files]
                /\ table' = IF updOk
                            THEN ViewpointStatusTable_update_viewpoint(table, id, item)
                            ELSE table
                /\ queue' = message_delete(queue, m, ack)
                /\ wlast' = Work("processed", m.mid, id, {"download", "pyramid", "metadata"},
                                 item.viewpoint_status = "FAILED", m.mid \in delivered,
                                 table[id].viewpoint_status, item, updOk, updOk /\ delOk)
        /\ resp' = NoResp
        /\ UNCHANGED <<api, dlq, nextMsg, now, enqueue_failed, was_deleted, sideVars>>

\* What the environment decides in one call of _process_message.  The
\* overview sidecar is requested only after a successful download, and no
\* sample tile is encoded when the bucket supplied an overview file.
WorkerInputs ==
    {i \in [dl : DownloadOutcomes, ovrS3 : BOOLEAN, tileOk : BOOLEAN, metaOk : BOOLEAN,
             ack : AckOutcomes] :
        /\ i.dl \notin {"ok", "sidecar_raises"} => ~i.ovrS3
        /\ i.ovrS3 => ~i.tileOk
        /\ i.dl = "sidecar_raises" => (~i.tileOk /\ ~i.metaOk /\ i.ack = "ok")}

\* The outcomes that a call of _process_message on message m can meet: a
\* stage that does not reach its call (the sample tile is encoded only for
\* an image without overview file, the metadata is read only from an image
\* on disk) has no outcome to draw.
outcomes_met(m, i) ==
    LET s1 == download_image(Stage(m.body, disk[m.viewpoint_id]), i.dl, i.ovrS3)
    IN  /\ i.tileOk => ("image" \in s1.files /\ "ovr" \notin s1.files)
        /\ i.metaOk => "image" \in s1.files

\* ---- the attempts of the primary download ----
AttemptOutcomes == {"ok", "not_found", "forbidden", "client_error", "exception"}

\* A mutation that retries after a ClientError as well.
retry_after_any_failure(outcome) == outcome # "ok"

\* Only the "except Exception" branch falls through to retry_count += 1;
\* success and ClientError break out of the loop.
retry_after(outcome) == outcome = "exception"

\* One iteration of the while loop of _download_s3_file_to_local_tmp.
download_attempt ==
    /\ ~dl_result.returned
    /\ retry_count < max_retries
    /\ LET outcome == attempt_outcomes[retry_count + 1]
           status == IF outcome = "ok" THEN NULL ELSE "FAILED"
           message == download_s3_file_to_local_tmp(outcome)
       IN  /\ dl_calls' = dl_calls + 1
           /\ IF retry_after(outcome)
              THEN /\ retry_count' = retry_count + 1
                   /\ dl_result' = DownloadResult(retry_count + 1 >= max_retries,
                                                  status, message)
              ELSE /\ retry_count' = retry_count
                   /\ dl_result' = DownloadResult(TRUE, status, message)
    /\ UNCHANGED <<attempt_outcomes, besidesDownload>>

InitDownload ==
    /\ LifecycleIdle
    /\ GateIdle
    /\ PoolIdle
    /\ ListIdle
    /\ TileIdle
    /\ EndpointIdle
    /\ PyramidIdle
    /\ CacheIdle
    /\ FleetIdle
    /\ RunIdle
    /\ RaceIdle
    /\ attempt_outcomes \in [1..max_retries -> AttemptOutcomes]
    /\ retry_count = 0
    /\ dl_calls = 0
    /\ dl_result = DownloadPending

NextDownload == download_attempt

SpecDownload == InitDownload /\ [][NextDownload]_vars

\* ---- the statements of create_tile_pyramid ----
\* A mutation that never computes the statistics first.
needs_statistics_never(in) == FALSE

\* "if not self.stop_event.is_set() and not aux_file_path.is_file()"
needs_statistics(in) == ~in.stop /\ ~in.aux

\* The try block is entered; the pool object is looked up (no dataset is
\* opened by that) and the statistics are computed first when needed.
pyramid_enter ==
    /\ pyramid_pc = "start"
    /\ pyramid_pc' = IF needs_statistics(pyramid_in) THEN "stats_open" ELSE "checkout"
    /\ UNCHANGED <<pyramid_in, pyramid_log, besidesPyramid>>

\* _calculate_image_statistics: temp_ds = gdal.Open(path)
statistics_open ==
    /\ pyramid_pc = "stats_open"
    /\ pyramid_log' = Append(pyramid_log, "stats_open")
    /\ pyramid_pc' = "stats_info"
    /\ UNCHANGED <<pyramid_in, besidesPyramid>>

\* gdal.Info(temp_ds, stats=True, ...); an exception leaves the try block.
statistics_info ==
    /\ pyramid_pc = "stats_info"
    /\ IF pyramid_in.statsOk
       THEN /\ pyramid_log' = Append(pyramid_log, "stats_computed")
            /\ pyramid_pc' = "stats_close"
       ELSE /\ pyramid_log' = Append(pyramid_log, "stats_raised")
            /\ pyramid_pc' = "failed"
    /\ UNCHANGED <<pyramid_in, besidesPyramid>>

\* del temp_ds: the dataset is closed and GDAL writes the .aux.xml file.
statistics_close ==
    /\ pyramid_pc = "stats_close"
    /\ pyramid_log' = Append(pyramid_log, "stats_closed")
    /\ pyramid_pc' = "checkout"
    /\ UNCHANGED <<pyramid_in, besidesPyramid>>

\* with tile_factory_pool.checkout_in_context(): an idle handle is taken,
\* or the dataset is opened (and the open can raise).
pyramid_checkout ==
    /\ pyramid_pc = "checkout"
    /\ IF pyramid_in.idle
       THEN /\ pyramid_log' = Append(pyramid_log, "pool_reuse")
            /\ pyramid_pc' = "body"
       ELSE IF pyramid_in.openOk
       THEN /\ pyramid_log' = Append(pyramid_log, "pool_open")
            /\ pyramid_pc' = "body"
       ELSE /\ pyramid_log' = Append(pyramid_log, "pool_open_raised")
            /\ pyramid_pc' = "failed"
    /\ UNCHANGED <<pyramid_in, besidesPyramid>>

\* The with block: overviews and sample tile only when no overview file
\* exists; "Image is empty." when no sample tile was encoded.
pyramid_body ==
    /\ pyramid_pc = "body"
    /\ IF ~pyramid_in.stop /\ ~pyramid_in.ovr
       THEN /\ pyramid_log' = pyramid_log \o <<"build_overviews", "sample_tile">>
            /\ pyramid_pc' = IF pyramid_in.tileOk THEN "done" ELSE "failed"
       ELSE /\ pyramid_log' = pyramid_log
            /\ pyramid_pc' = "failed"
    /\ UNCHANGED <<pyramid_in, besidesPyramid>>

InitPyramid ==
    /\ LifecycleIdle
    /\ GateIdle
    /\ PoolIdle
    /\ ListIdle
    /\ TileIdle
    /\ EndpointIdle
    /\ DownloadIdle
    /\ CacheIdle
    /\ FleetIdle
    /\ RunIdle
    /\ RaceIdle
    /\ pyramid_in \in [aux : BOOLEAN, ovr : BOOLEAN, stop : BOOLEAN, idle : BOOLEAN,
                        statsOk : BOOLEAN, openOk : BOOLEAN, tileOk : BOOLEAN]
    /\ pyramid_pc = "start"
    /\ pyramid_log = <<>>

NextPyramid ==
    \/ pyramid_enter
    \/ statistics_open
    \/ statistics_info
    \/ statistics_close
    \/ pyramid_checkout
    \/ pyramid_body

SpecPyramid == InitPyramid /\ [][NextPyramid]_vars

AllWorkerInputs ==
    {i \in [dl : S3Outcomes, ovrS3 : BOOLEAN, tileOk : BOOLEAN, metaOk : BOOLEAN,
             ack : AckOutcomes] :
        /\ i.dl \notin {"ok", "sidecar_raises"} => ~i.ovrS3
        /\ i.ovrS3 => ~i.tileOk
        /\ i.dl = "sidecar_raises" => (~i.tileOk /\ ~i.metaOk /\ i.ack = "ok")}

\* _process_message on its own: one message on the queue, with any status
\* in its body, any record or none under its key, and any files left in
\* the viewpoint's directory.
InitWorker ==
    /\ api \in {"routers", "router"}
    /\ \E item \in {ABSENT} \cup
              {ViewpointModel(st, "a", path, NULL, NoTime) :
                  st \in {"REQUESTED", "READY", "FAILED", "DELETED"}, path \in {NULL, "path"}} :
          table = [id \in Ids |-> item]
    /\ \E id \in Ids, st \in ViewpointStatus \ {"NOT_FOUND"} :
          queue = {Message(1, id, ViewpointModel(st, "a", NULL, NULL, DdbTtlDays))}
    /\ dlq = {}
    /\ delivered \in {{}, {1}}
    /\ nextMsg = MaxMsgs + 1
    /\ disk \in [Ids -> {{}, {"image"}, {"image", "ovr"}, {"image", "ovr", "sidecar"}}]
    /\ now = 0
    /\ resp = NoResp
    /\ wlast = NoWork
    /\ enqueue_failed = {}
    /\ was_deleted = {}
    /\ GateIdle
    /\ PoolIdle
    /\ ListIdle
    /\ TileIdle
    /\ EndpointIdle
    /\ DownloadIdle
    /\ PyramidIdle
    /\ CacheIdle
    /\ FleetIdle
    /\ RunIdle
    /\ RaceIdle

NextWorker ==
    \E m \in queue, i \in AllWorkerInputs :
        process_message(m, i.dl, i.ovrS3, i.tileOk, i.metaOk, i.ack)

SpecWorker == InitWorker /\ [][NextWorker]_vars

\* ------------------------------------------------------------------------
\* the dead-letter queue and lambda/cleanup_dlq.py
\* ------------------------------------------------------------------------

\* The queue's redrive policy moves a message that was received and not
\* deleted to the dead-letter queue.
Redrive(m) ==
    /\ m \in queue
    /\ m.mid \in delivered
    /\ queue' = queue \ {m}
    /\ dlq' = dlq \cup {m}
    /\ resp' = NoResp
    /\ wlast' = NoWork
    /\ UNCHANGED <<api, table, delivered, nextMsg, disk, now, enqueue_failed, was_deleted, sideVars>>

\* lambda_handler: get_item always returns a non-empty response dict, so the
\* update_item runs whether or not the item exists; it sets two attributes.
lambda_handler(m) ==
    LET id == m.viewpoint_id
        old == table[id]
        item == IF old = ABSENT
                THEN ViewpointModel("FAILED", MISSING, MISSING, MISSING, now + DlqTtlDays)
                ELSE [old EXCEPT !.viewpoint_status = "FAILED",
                                 !.expire_time = now + DlqTtlDays]
    IN  /\ m \in dlq
        /\ table' = [table EXCEPT ![id] = item]
        /\ dlq' = dlq \ {m}
        /\ resp' = NoResp
        /\ wlast' = NoWork
        /\ UNCHANGED <<api, queue, delivered, nextMsg, disk, now, enqueue_failed, was_deleted, sideVars>>

\* ------------------------------------------------------------------------
\* specifications
\* ------------------------------------------------------------------------

Next ==
    \/ Tick
    \/ \E id \in Ids, name \in CreateNames, enqOk \in BOOLEAN : create_viewpoint(id, name, enqOk)
    \/ \E id \in Ids, name \in Names : update_viewpoint(id, name)
    \/ \E id \in Ids : describe_viewpoint(id)
    \/ \E id \in Ids : ViewpointRouter_delete_viewpoint(id)
    \/ \E id \in Ids : delete_viewpoint(id)
    \/ \E op \in ImageOps, id \in Ids : get_image(op, id)
    \/ \E m \in queue, i \in WorkerInputs :
          /\ outcomes_met(m, i)
          /\ process_message(m, i.dl, i.ovrS3, i.tileOk, i.metaOk, i.ack)
    \/ \E m \in queue : Redrive(m)
    \/ \E m \in dlq : lambda_handler(m)

Spec == Init /\ [][Next]_vars

\* The status gate on its own, over every status and every API name.
InitGate ==
    /\ LifecycleIdle
    /\ v_in \in [impl : {"models", "routers"}, status : ViewpointStatus, op : ViewpointApiNames]
    /\ v_out = "idle"
    /\ PoolIdle
    /\ ListIdle
    /\ TileIdle
    /\ EndpointIdle
    /\ DownloadIdle
    /\ PyramidIdle
    /\ CacheIdle
    /\ FleetIdle
    /\ RunIdle
    /\ RaceIdle

EvaluateGate ==
    /\ v_out = "idle"
    /\ v_out' = Gate(v_in.impl, v_in.status, v_in.op)
    /\ UNCHANGED <<v_in, besidesGate>>

NextGate == EvaluateGate

SpecGate == InitGate /\ [][NextGate]_vars

\* ------------------------------------------------------------------------
\* utils/tile_server_utils.py: TileFactoryPool
\* ------------------------------------------------------------------------

\* A mutation of checkout that takes the newest idle tile factory.
checkout_take_newest(inv) == IF inv # <<>> THEN inv[Len(inv)] ELSE NoHandle

\* checkout, under the lock: current_inventory.pop(0), or None.
checkout_take(inv) == IF inv # <<>> THEN Head(inv) ELSE NoHandle

\* A mutation of checkout that leaves the popped tile factory in the list.
checkout_rest_kept(inv, h) == inv

\* What checkout leaves in current_inventory.
checkout_rest(inv, h) == SelectSeq(inv, LAMBDA x : x # h)

\* A mutation of checkout that loads a dataset on every call.
needs_open_always(tf) == TRUE

\* checkout: "if tf is None" a new tile factory is built.
needs_open(tf) == tf = NoHandle

\* A mutation of checkin that drops the tile factory.
checkin_dropped(inv, tf) == inv

\* checkin, under the lock: current_inventory.append(tf).
checkin(inv, tf) == Append(inv, tf)

\* The threads that hold tile factory h: it was returned to them by the pop
\* or built by them, and they have not checked it in.
holders(h) == {t \in Threads : thr[t].pc \in {"count", "body"} /\ thr[t].tf = h}

\* The positions of tile factory h in current_inventory.
idle_positions(h) == {i \in DOMAIN current_inventory : current_inventory[i] = h}

\* "with self.lock:" is entered: an RLock is acquired when it is free or
\* owned by the calling thread, and blocks the caller otherwise.
lock_acquire(t) == lock \in {NoThread, t}

\* A mutation of the with block that leaves the lock with its owner.
lock_release_never(t) == t

\* "with self.lock:" is left: the lock is released.
lock_release(t) == NoThread

InContext(f) == Cardinality({t \in Threads : f[t].pc # "idle"})

\* checkout_in_context enters checkout, which inspects the idle list.
checkout(t) ==
    LET h == checkout_take(current_inventory)
        round == IF rt.h # NoHandle /\ rt.back
                 THEN (IF rt.alone THEN "alone" ELSE "shared")
                 ELSE "none"
        next == [thr EXCEPT ![t] = [pc |-> IF needs_open(h) THEN "open" ELSE "body",
                                    tf |-> h, round |-> round, prev |-> rt.h,
                                    last |-> "none"]]
    IN  /\ thr[t].pc = "idle"
        /\ lock_acquire(t)
        /\ lock' = lock_release(t)
        /\ current_inventory' = checkout_rest(current_inventory, h)
        /\ thr' = next
        /\ rt' = [by |-> t, h |-> IF needs_open(h) THEN NoHandle ELSE h,
                  back |-> FALSE, alone |-> FALSE]
        /\ peak' = IF InContext(next) > peak THEN InContext(next) ELSE peak
        /\ UNCHANGED <<total_inventory, opened, besidesPool>>

\* checkout, outside the lock: load_gdal_dataset and GDALTileFactory(...).
\* An exception leaves checkout_in_context with tf still None.
load_gdal_dataset(t, ok) ==
    /\ thr[t].pc = "open"
    /\ IF ok
       THEN /\ opened < MaxHandles
            /\ opened' = opened + 1
            /\ thr' = [thr EXCEPT ![t].tf = opened + 1, ![t].pc = "count"]
            /\ rt' = IF rt.by = t THEN [rt EXCEPT !.h = opened + 1] ELSE rt
       ELSE /\ thr' = [thr EXCEPT ![t] = [ThreadIdle EXCEPT !.last = "open_failed"]]
            /\ UNCHANGED <<opened, rt>>
    /\ UNCHANGED <<current_inventory, total_inventory, peak, lock, besidesPool>>

\* checkout, under the lock again: total_inventory += 1; the handle is
\* yielded to the with block.
count_inventory(t) ==
    /\ thr[t].pc = "count"
    /\ lock_acquire(t)
    /\ lock' = lock_release(t)
    /\ total_inventory' = total_inventory + 1
    /\ thr' = [thr EXCEPT ![t].pc = "body"]
    /\ UNCHANGED <<current_inventory, opened, peak, rt, besidesPool>>

\* The with block ends, by return or by exception; the finally clause of
\* checkout_in_context checks the tile factory in.
checkout_in_context_exit(t, raised) ==
    /\ thr[t].pc = "body"
    /\ lock_acquire(t)
    /\ lock' = lock_release(t)
    /\ current_inventory' = checkin(current_inventory, thr[t].tf)
    /\ thr' = [thr EXCEPT ![t] = [ThreadIdle EXCEPT
                                      !.last = IF raised THEN "raised" ELSE "returned"]]
    /\ rt' = IF rt.h = thr[t].tf /\ ~rt.back
             THEN [rt EXCEPT !.back = TRUE, !.alone = (current_inventory = <<>>)]
             ELSE rt
    /\ UNCHANGED <<total_inventory, opened, peak, besidesPool>>

InitPool == LifecycleIdle /\ GateIdle /\ PoolIdle /\ ListIdle /\ TileIdle /\ EndpointIdle /\ DownloadIdle /\ PyramidIdle /\ CacheIdle /\ FleetIdle /\ RunIdle /\ RaceIdle

NextPool ==
    \/ \E t \in Threads : checkout(t)
    \/ \E t \in Threads, ok \in BOOLEAN : load_gdal_dataset(t, ok)
    \/ \E t \in Threads : count_inventory(t)
    \/ \E t \in Threads, raised \in BOOLEAN : checkout_in_context_exit(t, raised)

SpecPool == InitPool /\ [][NextPool]_vars

\* A thread inside checkout keeps running: load_gdal_dataset returns or
\* raises, and a thread that can enter "with self.lock:" does so.
in_checkout(t) ==
    \/ \E ok \in BOOLEAN : load_gdal_dataset(t, ok)
    \/ count_inventory(t)

LivePool == SpecPool /\ \A t \in Threads : WF_vars(in_checkout(t))

\* ------------------------------------------------------------------------
\* get_tile_factory_pool: @lru_cache(maxsize=20) around TileFactoryPool(...)
\*
\* functools.lru_cache looks the key up and, on a hit, moves its link to the
\* most recent end and returns the cached result.  On a miss it calls the
\* wrapped function with no lock held and then stores the result, unless the
\* key was stored by another thread during the call: then the cache is left
\* as it is and the result just computed is returned.  A full cache drops
\* its oldest link for the new one.  The request handlers are plain "def"
\* functions, which the server runs on a pool of threads.
\* ------------------------------------------------------------------------

\* The keys the calls carry: the key cached first, and two keys not cached
\* at the start.
RequestedKeys == {1, maxsize, maxsize + 1}

cached_keys(c) == {c[i].key : i \in DOMAIN c}

cache_index(c, key) == CHOOSE i \in DOMAIN c : c[i].key = key

cache_without(c, key) == SelectSeq(c, LAMBDA x : x.key # key)

\* A mutation of the hit that leaves the link where it is.
cache_hit_in_place(c, key) == c

\* lru_cache, hit: the link moves to the most recently used end.
cache_hit(c, key) == Append(cache_without(c, key), c[cache_index(c, key)])

\* lru_cache, store: below maxsize the link is added, at maxsize the oldest
\* link is dropped for it.
cache_store(c, link) ==
    IF Len(c) < maxsize THEN Append(c, link) ELSE Append(Tail(c), link)

\* The key that the store of a new link drops.
cache_evicted(c) == IF Len(c) < maxsize THEN NoKeyCached ELSE Head(c).key

\* get_tile_factory_pool is called: the cache is looked up.
get_tile_factory_pool(t, key) ==
    /\ caller[t].pc = "idle"
    /\ tick < maxsize - 1 + MaxCalls
    /\ tick' = tick + 1
    /\ IF key \in cached_keys(lru)
       THEN /\ lru' = cache_hit(lru, key)
            /\ used_at' = [used_at EXCEPT ![key] = tick + 1]
            /\ cache_resp' = [t |-> t, key |-> key, pool |-> lru[cache_index(lru, key)].pool,
                              hit |-> TRUE, evicted |-> NoKeyCached]
            /\ UNCHANGED caller
       ELSE /\ caller' = [caller EXCEPT ![t] = [pc |-> "make", key |-> key]]
            /\ UNCHANGED <<lru, used_at, cache_resp>>
    /\ UNCHANGED <<made, ret_of, besidesCache>>

\* The wrapped function has returned a new TileFactoryPool: it is stored,
\* unless the key was stored in the meantime, and returned.
TileFactoryPool_init(t) ==
    LET key == caller[t].key
        pool == made + 1
        stored == key \in cached_keys(lru)
        evicted == IF stored THEN NoKeyCached ELSE cache_evicted(lru)
    IN  /\ caller[t].pc = "make"
        /\ made' = pool
        /\ tick' = tick + 1
        /\ caller' = [caller EXCEPT ![t] = CallerIdle]
        /\ cache_resp' = [t |-> t, key |-> key, pool |-> pool, hit |-> FALSE,
                          evicted |-> evicted]
        /\ IF stored
           THEN UNCHANGED <<lru, used_at, ret_of>>
           ELSE /\ lru' = cache_store(lru, [key |-> key, pool |-> pool])
                /\ used_at' = [k \in CacheKeys |->
                                 IF k = key THEN tick + 1
                                 ELSE IF k = evicted THEN 0 ELSE used_at[k]]
                /\ ret_of' = [k \in CacheKeys |->
                                 IF k = key THEN pool
                                 ELSE IF k = evicted THEN NoPool ELSE ret_of[k]]
        /\ UNCHANGED besidesCache

\* The cache after maxsize - 1 calls with the keys 1 .. maxsize - 1, one
\* after the other: one link is free.
InitCache ==
    /\ LifecycleIdle
    /\ GateIdle
    /\ PoolIdle
    /\ ListIdle
    /\ TileIdle
    /\ EndpointIdle
    /\ DownloadIdle
    /\ PyramidIdle
    /\ FleetIdle
    /\ RunIdle
    /\ RaceIdle
    /\ lru = [i \in 1..(maxsize - 1) |-> [key |-> i, pool |-> i]]
    /\ made = maxsize - 1
    /\ tick = maxsize - 1
    /\ used_at = [k \in CacheKeys |-> IF k <= maxsize - 1 THEN k ELSE 0]
    /\ ret_of = [k \in CacheKeys |-> IF k <= maxsize - 1 THEN k ELSE NoPool]
    /\ caller = [t \in Threads |-> CallerIdle]
    /\ cache_resp = NoCacheResp

NextCache ==
    \/ \E t \in Threads, key \in RequestedKeys : get_tile_factory_pool(t, key)
    \/ \E t \in Threads : TileFactoryPool_init(t)

SpecCache == InitCache /\ [][NextCache]_vars

\* ------------------------------------------------------------------------
\* Several instances of the tile server on one request queue.  Each runs
\* ViewpointWorker.run: receive_messages, then _process_message statement
\* by statement.  A received message is hidden from other receivers for the
\* visibility timeout of the queue and becomes visible again when that time
\* has passed and the message has not been deleted.
\* ------------------------------------------------------------------------

FleetMessage == [mid |-> 1, viewpoint_id |-> 1, body |-> [viewpoint_status |-> f_body]]

\* run: receive_messages(WaitTimeSeconds=5) returns the message.
receive_messages(w) ==
    /\ fleet[w].pc = "poll"
    /\ f_queue.present /\ f_queue.visible
    /\ f_queue' = [f_queue EXCEPT !.visible = FALSE]
    /\ fleet' = [fleet EXCEPT ![w].pc = "received"]
    /\ UNCHANGED <<f_body, f_table, besidesFleet>>

\* SQS: the visibility timeout of a received message has passed.
visibility_timeout ==
    /\ f_queue.present /\ ~f_queue.visible
    /\ f_queue' = [f_queue EXCEPT !.visible = TRUE]
    /\ UNCHANGED <<f_body, f_table, fleet, besidesFleet>>

\* _process_message: the status test on the message body, then
\* download_image; or the return of the skip branch.
fleet_download_image(w) ==
    /\ fleet[w].pc = "received"
    /\ fleet' = IF should_process(FleetMessage, f_table)
                THEN [fleet EXCEPT ![w] = [pc |-> "downloaded", done |-> @.done \cup {"download"}]]
                ELSE [fleet EXCEPT ![w].pc = "poll"]
    /\ UNCHANGED <<f_body, f_queue, f_table, besidesFleet>>

fleet_create_tile_pyramid(w) ==
    /\ fleet[w].pc = "downloaded"
    /\ fleet' = [fleet EXCEPT ![w] = [pc |-> "tiled", done |-> @.done \cup {"pyramid"}]]
    /\ UNCHANGED <<f_body, f_queue, f_table, besidesFleet>>

fleet_extract_metadata(w) ==
    /\ fleet[w].pc = "tiled"
    /\ fleet' = [fleet EXCEPT ![w] = [pc |-> "extracted", done |-> @.done \cup {"metadata"}]]
    /\ UNCHANGED <<f_body, f_queue, f_table, besidesFleet>>

\* _update_status: update_viewpoint writes READY, or FAILED when a stage
\* failed.
fleet_update_status(w, ok) ==
    /\ fleet[w].pc = "extracted"
    /\ f_table' = IF ok THEN "READY" ELSE "FAILED"
    /\ fleet' = [fleet EXCEPT ![w] = [pc |-> "updated", done |-> @.done \cup {"update"}]]
    /\ UNCHANGED <<f_body, f_queue, besidesFleet>>

\* message.delete(): the message leaves the queue, if it is still there.
fleet_message_delete(w) ==
    /\ fleet[w].pc = "updated"
    /\ f_queue' = NoFleetMessage
    /\ fleet' = [fleet EXCEPT ![w].pc = "poll"]
    /\ UNCHANGED <<f_body, f_table, besidesFleet>>

\* create_viewpoint has stored a REQUESTED record and sent its message.
InitFleet ==
    /\ LifecycleIdle
    /\ GateIdle
    /\ PoolIdle
    /\ ListIdle
    /\ TileIdle
    /\ EndpointIdle
    /\ DownloadIdle
    /\ PyramidIdle
    /\ CacheIdle
    /\ RunIdle
    /\ RaceIdle
    /\ f_body \in ViewpointStatus \ {"NOT_FOUND"}
    /\ f_queue = [present |-> TRUE, visible |-> TRUE]
    /\ f_table = "REQUESTED"
    /\ fleet = [w \in Workers |-> WorkerIdle]

NextFleet ==
    \/ \E w \in Workers : receive_messages(w)
    \/ visibility_timeout
    \/ \E w \in Workers : fleet_download_image(w)
    \/ \E w \in Workers : fleet_create_tile_pyramid(w)
    \/ \E w \in Workers : fleet_extract_metadata(w)
    \/ \E w \in Workers, ok \in BOOLEAN : fleet_update_status(w, ok)
    \/ \E w \in Workers : fleet_message_delete(w)

SpecFleet == InitFleet /\ [][NextFleet]_vars

\* ------------------------------------------------------------------------
\* ViewpointWorker.run and join: the loop of one worker thread.
\*
\*   while not self.stop_event.is_set():
\*       try:
\*           messages = queue.receive_messages(WaitTimeSeconds=5)
\*           for message in messages:
\*               self._process_message(message)
\*       except ClientError / KeyError / Exception: logged
\*
\* receive_messages returns after at most five seconds with the messages it
\* found, none included.  The for loop takes whatever number it is given.
\* ------------------------------------------------------------------------

\* How _process_message ends for one message: it returns after
\* message.delete(), it returns from the skip branch, or it raises: from
\* json.loads or model validation, from a sidecar download, from the table
\* update, from message.delete().
ProcessOutcomes == {"done", "skipped", "malformed", "sidecar_raises", "update_raises",
                    "delete_raises"}

raises(outcome) == outcome \notin {"done", "skipped"}

\* A mutation of the loop test that ignores the stop signal.
loop_continues_always(stop) == TRUE

\* "while not self.stop_event.is_set()"
loop_continues(stop) == ~stop

\* A mutation in which an exception of _process_message ends the thread.
after_exception_dies == "stopped"

\* The except clauses of run() log the exception; control returns to the
\* loop test.
after_exception == "while"

\* The batches receive_messages can return: distinct messages of the queue
\* in some order.
Batches(q) ==
    {b \in UNION {[1..n -> q] : n \in 0..Cardinality(q)} :
        \A i, j \in DOMAIN b : i # j => b[i] # b[j]}

\* join(): stop_event.set(), from the thread that shuts the server down.
run_join ==
    /\ run_pc # "new"
    /\ ~stop_event
    /\ stop_event' = TRUE
    /\ UNCHANGED <<run_pc, messages, rq, handled, late_polls, besidesRun>>

\* The loop test.
run_while ==
    /\ run_pc = "while"
    /\ run_pc' = IF loop_continues(stop_event) THEN "receive" ELSE "stopped"
    /\ UNCHANGED <<stop_event, messages, rq, handled, late_polls, besidesRun>>

\* receive_messages(WaitTimeSeconds=5) returns a batch.
run_receive_messages(b) ==
    /\ run_pc = "receive"
    /\ b \in Batches(rq)
    /\ messages' = b
    /\ run_pc' = "for"
    /\ late_polls' = IF stop_event THEN late_polls + 1 ELSE late_polls
    /\ UNCHANGED <<stop_event, rq, handled, besidesRun>>

\* One pass of the for loop: _process_message for the next message.
run_process_message(outcome) ==
    /\ run_pc = "for"
    /\ messages # <<>>
    /\ LET m == Head(messages)
       IN  IF raises(outcome)
           THEN /\ run_pc' = after_exception
                /\ messages' = <<>>
                /\ handled' = [k \in BatchIds |->
                                 IF k = m THEN "raised"
                                 ELSE IF \E i \in DOMAIN messages : messages[i] = k
                                      THEN "not_reached" ELSE handled[k]]
                /\ UNCHANGED rq
           ELSE /\ run_pc' = "for"
                /\ messages' = Tail(messages)
                /\ handled' = [handled EXCEPT ![m] = outcome]
                /\ rq' = IF outcome = "done" THEN rq \ {m} ELSE rq
    /\ UNCHANGED <<stop_event, late_polls, besidesRun>>

\* The for loop has gone through the batch.
run_for_end ==
    /\ run_pc = "for"
    /\ messages = <<>>
    /\ run_pc' = "while"
    /\ UNCHANGED <<stop_event, messages, rq, handled, late_polls, besidesRun>>

\* start(): the thread enters run() with some requests on the queue.
InitRun ==
    /\ LifecycleIdle
    /\ GateIdle
    /\ PoolIdle
    /\ ListIdle
    /\ TileIdle
    /\ EndpointIdle
    /\ DownloadIdle
    /\ PyramidIdle
    /\ CacheIdle
    /\ FleetIdle
    /\ RaceIdle
    /\ stop_event = FALSE
    /\ run_pc = "while"
    /\ messages = <<>>
    /\ rq \in SUBSET BatchIds
    /\ handled = [m \in BatchIds |-> "none"]
    /\ late_polls = 0

run_step ==
    \/ run_while
    \/ \E b \in Batches(rq) : run_receive_messages(b)
    \/ \E outcome \in ProcessOutcomes : run_process_message(outcome)
    \/ run_for_end

NextRun ==
    \/ run_join
    \/ run_while
    \/ \E b \in Batches(rq) : run_receive_messages(b)
    \/ \E outcome \in ProcessOutcomes : run_process_message(outcome)
    \/ run_for_end

SpecRun == InitRun /\ [][NextRun]_vars

\* The thread is scheduled, receive_messages returns within its wait time
\* and _process_message returns or raises.
LiveRun == SpecRun /\ WF_vars(run_step)

\* ------------------------------------------------------------------------
\* Requests for one viewpoint_id served at the same time.  The handlers are
\* plain functions run on the server's thread pool; each call of the table
\* (get_item, put_item, update_item, delete_item) and of the queue is one
\* step, and nothing else orders the steps of two handlers.
\* ------------------------------------------------------------------------

RaceId == CHOOSE id \in Ids : TRUE

ReadyRecord == ViewpointModel("READY", "a", "path", NULL, DdbTtlDays)

answer(r, out) == [handler EXCEPT ![r].pc = "done", ![r].out = out]

\* create_viewpoint: get_viewpoint; an existing viewpoint is answered 202.
create_get(r) ==
    /\ handler[r].op = "create" /\ handler[r].pc = "get"
    /\ handler' = IF get_viewpoint_ok(h_table, RaceId)
                  THEN answer(r, "202")
                  ELSE [handler EXCEPT ![r].pc = "put",
                            ![r].item = ViewpointModel("REQUESTED", "a", NULL, NULL, DdbTtlDays)]
    /\ UNCHANGED <<h_api, h_table, h_sent, h_puts, besidesRace>>

\* create_viewpoint: viewpoint_database.create_viewpoint (put_item).
create_put(r) ==
    /\ handler[r].op = "create" /\ handler[r].pc = "put"
    /\ h_table' = ViewpointStatusTable_create_viewpoint(h_table, RaceId, handler[r].item)
    /\ h_puts' = h_puts + 1
    /\ handler' = [handler EXCEPT ![r].pc = "send"]
    /\ UNCHANGED <<h_api, h_sent, besidesRace>>

\* create_viewpoint: viewpoint_queue.send_request, then the answer 201.
create_send(r, enqOk) ==
    /\ handler[r].op = "create" /\ handler[r].pc = "send"
    /\ h_sent' = send_request(h_sent, r, enqOk)
    /\ handler' = answer(r, "201")
    /\ UNCHANGED <<h_api, h_table, h_puts, besidesRace>>

\* update_viewpoint: get_viewpoint and the status gate; the handler keeps
\* the item it read, with the new name.
update_get(r) ==
    /\ handler[r].op = "update" /\ handler[r].pc = "get"
    /\ handler' =
         IF ~get_viewpoint_ok(h_table, RaceId) THEN answer(r, "error")
         ELSE LET gate == Gate(h_api, h_table[RaceId].viewpoint_status, "update")
              IN  IF gate # "pass" THEN answer(r, gate)
                  ELSE [handler EXCEPT ![r].pc = "write",
                            ![r].item = [h_table[RaceId] EXCEPT !.viewpoint_name = "b"]]
    /\ UNCHANGED <<h_api, h_table, h_sent, h_puts, besidesRace>>

\* update_viewpoint: viewpoint_database.update_viewpoint writes the item.
update_write(r) ==
    /\ handler[r].op = "update" /\ handler[r].pc = "write"
    /\ h_table' = ViewpointStatusTable_update_viewpoint(h_table, RaceId, handler[r].item)
    /\ handler' = answer(r, "201")
    /\ UNCHANGED <<h_api, h_sent, h_puts, besidesRace>>

\* delete_viewpoint of either generation: get_viewpoint and the status gate.
delete_get(r) ==
    /\ handler[r].op = "delete" /\ handler[r].pc = "get"
    /\ handler' =
         IF ~get_viewpoint_ok(h_table, RaceId)
         THEN answer(r, IF h_api = "router" THEN "not_found" ELSE "error")
         ELSE LET gate == Gate(h_api, h_table[RaceId].viewpoint_status, "update")
              IN  IF gate # "pass" THEN answer(r, gate)
                  ELSE IF h_table[RaceId].local_object_path = NULL THEN answer(r, "error")
                  ELSE [handler EXCEPT ![r].pc = "write", ![r].item = h_table[RaceId]]
    /\ UNCHANGED <<h_api, h_table, h_sent, h_puts, besidesRace>>

\* delete_viewpoint: delete_item in viewpoint_id/router.py; in routers.py
\* the item read is written back as DELETED.
delete_write(r) ==
    /\ handler[r].op = "delete" /\ handler[r].pc = "write"
    /\ IF h_api = "router"
       THEN /\ h_table' = ViewpointStatusTable_delete_viewpoint(h_table, RaceId)
            /\ handler' = answer(r, "204")
       ELSE /\ h_table' = ViewpointStatusTable_update_viewpoint(h_table, RaceId,
                              [handler[r].item EXCEPT !.viewpoint_status = "DELETED",
                                                      !.local_object_path = NULL,
                                                      !.expire_time = DeletedTtlDays])
            /\ handler' = answer(r, "200")
    /\ UNCHANGED <<h_api, h_sent, h_puts, besidesRace>>

\* Requests arrive together, for an id that is new or for a READY viewpoint.
InitRace ==
    /\ LifecycleIdle
    /\ GateIdle
    /\ PoolIdle
    /\ ListIdle
    /\ TileIdle
    /\ EndpointIdle
    /\ DownloadIdle
    /\ PyramidIdle
    /\ CacheIdle
    /\ FleetIdle
    /\ RunIdle
    /\ h_api \in {"routers", "router"}
    /\ h_table \in [Ids -> {ABSENT, ReadyRecord}]
    /\ h_sent = {}
    /\ h_puts = 0
    /\ handler \in [Handlers -> {[op |-> op, pc |-> "get", item |-> NoRecord, out |-> "none"] :
                                    op \in {"create", "update", "delete"}}]

NextRace ==
    \/ \E r \in Handlers : create_get(r)
    \/ \E r \in Handlers : create_put(r)
    \/ \E r \in Handlers, enqOk \in BOOLEAN : create_send(r, enqOk)
    \/ \E r \in Handlers : update_get(r)
    \/ \E r \in Handlers : update_write(r)
    \/ \E r \in Handlers : delete_get(r)
    \/ \E r \in Handlers : delete_write(r)

SpecRace == InitRace /\ [][NextRace]_vars

\* ------------------------------------------------------------------------
\* services/database.py, viewpoint/router.py: listing the viewpoints
\* ------------------------------------------------------------------------
\* limit = None and limit = 0 both fail "if limit:"; next_token = None.
NoLimit == 0
NoKey == 0
OtherVersion == EndpointVersion + 1

Min2(a, b) == IF a < b THEN a ELSE b

\* An item of the table: a complete record, or the two attributes the
\* dead-letter lambda upserts under a key whose record is gone.
ItemKinds ==
    {[viewpoint_status |-> "READY", complete |-> TRUE],
     [viewpoint_status |-> "DELETED", complete |-> TRUE],
     [viewpoint_status |-> "FAILED", complete |-> FALSE]}

\* Table.scan evaluates the items in a fixed order; the keys are numbered in
\* that order.  The scan resumes behind ExclusiveStartKey.
scan_start_inclusive(items, key) ==
    Cardinality({i \in 1..Len(items) : items[i].viewpoint_id < key})

scan_start(items, key) ==
    Cardinality({i \in 1..Len(items) : items[i].viewpoint_id <= key})

\* One call of Table.scan: at most Limit items, and at most one response
\* page (ScanPage items), are evaluated, the FilterExpression is applied to
\* the evaluated items, and LastEvaluatedKey is the last evaluated key when
\* the scan stopped on its cap.
scan(items, Limit, ExclusiveStartKey) ==
    LET first == scan_start(items, ExclusiveStartKey)
        cap == IF Limit = NoLimit THEN ScanPage ELSE Min2(Limit, ScanPage)
        last == Min2(first + cap, Len(items))
    IN  [Items |-> SelectSeq(SubSeq(items, first + 1, last),
                             LAMBDA it : it.viewpoint_status # "DELETED"),
         LastEvaluatedKey |-> IF last - first = cap THEN items[last].viewpoint_id ELSE NoKey]

RECURSIVE scan_all(_, _, _)
scan_all(items, key, data) ==
    LET response == scan(items, NoLimit, key)
    IN  IF response.LastEvaluatedKey # NoKey
        THEN scan_all(items, response.LastEvaluatedKey, data \o response.Items)
        ELSE data \o response.Items

get_all_viewpoints(items) == [items |-> scan_all(items, NoKey, <<>>), next_token |-> NoKey]

get_paged_viewpoints(items, Limit, ExclusiveStartKey) ==
    LET response == scan(items, Limit, ExclusiveStartKey)
    IN  [items |-> response.Items, next_token |-> response.LastEvaluatedKey]

\* ViewpointListResponse(items=...) validates every item as a ViewpointModel.
ViewpointListResponse(r) == \A i \in 1..Len(r.items) : r.items[i].complete

get_viewpoints(items, limit, next_token) ==
    LET r == IF limit # NoLimit \/ next_token # NoKey
             THEN get_paged_viewpoints(items, limit, next_token)
             ELSE get_all_viewpoints(items)
    IN  IF ViewpointListResponse(r)
        THEN [status |-> 200, detail |-> "ok", items |-> r.items, next_token |-> r.next_token]
        ELSE [status |-> 500, detail |-> "something_went_wrong", items |-> <<>>,
              next_token |-> NoKey]

\* Fernet: only a token sealed under the server's key decrypts.  plain is
\* the decrypted string split at "|".
encrypt(plain) == [sealed |-> TRUE, plain |-> plain]

\* The checks of list_viewpoints on a next_token, in their order.
token_error_expired_as_invalid(tok, t) ==
    IF ~tok.sealed \/ Len(tok.plain) # 3 THEN "invalid"
    ELSE IF tok.plain[2] = NoTime \/ tok.plain[2] < t THEN "invalid"
    ELSE IF tok.plain[3] # EndpointVersion THEN "not_compatible"
    ELSE "none"

token_error(tok, t) ==
    IF ~tok.sealed \/ Len(tok.plain) # 3 THEN "invalid"
    ELSE IF tok.plain[2] = NoTime THEN "invalid"
    ELSE IF tok.plain[2] < t THEN "expired"
    ELSE IF tok.plain[3] # EndpointVersion THEN "not_compatible"
    ELSE "none"

list_viewpoints(limit, tok, t) ==
    LET err == IF tok # NoToken THEN token_error(tok, t) ELSE "none"
        decrypted_next_token == IF tok # NoToken /\ err = "none" THEN tok.plain[1] ELSE NoKey
        results == get_viewpoints(ddb_items, limit, decrypted_next_token)
    IN  IF err # "none"
        THEN [tok |-> tok, at |-> t, status |-> 400, detail |-> err, scanned |-> FALSE,
              items |-> <<>>, next_token |-> NoToken]
        ELSE [tok |-> tok, at |-> t, status |-> results.status, detail |-> results.detail,
              scanned |-> TRUE, items |-> results.items,
              next_token |-> IF results.next_token # NoKey
                             THEN encrypt(<<results.next_token, t + TokenTtlDays,
                                            EndpointVersion>>)
                             ELSE NoToken]

\* Tokens a client can present besides the one it was handed: not sealed
\* under the key, sealed with a field missing, sealed with an expiration
\* that is no date, and tokens sealed earlier or for another version.
PresentedTokens ==
    {[sealed |-> FALSE, plain |-> <<1, MaxNow, EndpointVersion>>],
     encrypt(<<1, MaxNow>>),
     encrypt(<<1, NoTime, EndpointVersion>>)}
    \cup {encrypt(<<1, e, v>>) : e \in 0..MaxNow, v \in {EndpointVersion, OtherVersion}}

\* The client lists with max_results and follows the next_token it holds.
FollowToken ==
    /\ l_pc \in {"start", "more"}
    /\ LET r == list_viewpoints(max_results, held_token, utc_now)
       IN  /\ l_resp' = r
           /\ IF r.status = 200
              THEN /\ listed' = listed \o r.items
                   /\ held_token' = r.next_token
                   /\ l_pc' = IF r.next_token = NoToken THEN "done" ELSE "more"
              ELSE /\ l_pc' = "failed"
                   /\ UNCHANGED <<listed, held_token>>
    /\ UNCHANGED <<ddb_items, max_results, utc_now, besidesList>>

PresentToken(tok) ==
    /\ l_resp' = list_viewpoints(max_results, tok, utc_now)
    /\ UNCHANGED <<ddb_items, max_results, held_token, listed, l_pc, utc_now, besidesList>>

ListTick ==
    /\ utc_now < MaxNow
    /\ utc_now' = utc_now + 1
    /\ UNCHANGED <<ddb_items, max_results, held_token, listed, l_pc, l_resp, besidesList>>

InitList ==
    /\ LifecycleIdle
    /\ GateIdle
    /\ PoolIdle
    /\ TileIdle
    /\ EndpointIdle
    /\ DownloadIdle
    /\ PyramidIdle
    /\ CacheIdle
    /\ FleetIdle
    /\ RunIdle
    /\ RaceIdle
    /\ \E n \in 0..MaxItems : \E f \in [1..n -> ItemKinds] :
          ddb_items = [i \in 1..n |-> [viewpoint_id |-> i,
                                       viewpoint_status |-> f[i].viewpoint_status,
                                       complete |-> f[i].complete]]
    /\ max_results \in 0..MaxLimit
    /\ held_token = NoToken
    /\ listed = <<>>
    /\ l_pc = "start"
    /\ utc_now = 0
    /\ l_resp = NoListResp

NextList ==
    \/ FollowToken
    \/ \E tok \in PresentedTokens : PresentToken(tok)
    \/ ListTick

SpecList == InitList /\ [][NextList]_vars

\* ------------------------------------------------------------------------
\* viewpoint/viewpoint_id/image/tiles.py, viewpoint/routers.py: tile window
\* ------------------------------------------------------------------------
TileSizes == {256, 512}

\* A mutation that reads every level at full resolution.
src_tile_size_unscaled(z, tile_size) == tile_size

src_tile_size(z, tile_size) == 2^z * tile_size

\* get_image_tile on a READY viewpoint whose tile factory opens: 400 for a
\* negative z, else one create_encoded_tile call.
get_image_tile ==
    /\ tile_call = NoTileCall
    /\ tile_call' =
          IF tile_request.z < 0
          THEN [status |-> 400, src_window |-> <<>>, output_size |-> <<>>]
          ELSE LET s == src_tile_size(tile_request.z, tile_request.tile_size)
               IN  [status |-> 200,
                    src_window |-> <<tile_request.x * s, tile_request.y * s, s, s>>,
                    output_size |-> <<tile_request.tile_size, tile_request.tile_size>>]
    /\ UNCHANGED <<tile_request, besidesTile>>

InitTile ==
    /\ LifecycleIdle
    /\ GateIdle
    /\ PoolIdle
    /\ ListIdle
    /\ EndpointIdle
    /\ DownloadIdle
    /\ PyramidIdle
    /\ CacheIdle
    /\ FleetIdle
    /\ RunIdle
    /\ RaceIdle
    /\ tile_request \in [z : -1..MaxZ, x : 0..MaxXY, y : 0..MaxXY, tile_size : TileSizes]
    /\ tile_call = NoTileCall

NextTile == get_image_tile

SpecTile == InitTile /\ [][NextTile]_vars

\* ------------------------------------------------------------------------
\* what the caller of a gated endpoint receives
\* ------------------------------------------------------------------------
GatedEndpoints ==
    {"metadata", "bounds", "info", "statistics", "preview", "tile", "crop", "update", "delete"}

\* The ViewpointApiNames member each endpoint hands to the gate: crop passes
\* PREVIEW and delete passes UPDATE.
ApiNameOf(endpoint) ==
    IF endpoint = "crop" THEN "preview"
    ELSE IF endpoint = "delete" THEN "update"
    ELSE endpoint

\* The message of the gate's exception: the deleted message carries the API
\* name, the not-ready message carries none.
GateDetail(code, gate, api_operation) ==
    IF gate = "deleted" THEN HttpResponse(code, api_operation, "deleted")
    ELSE HttpResponse(code, NULL, "not_ready")

\* The gate's exception on its way to the caller.  ViewpointRouter raises
\* HTTPException 404 / 400; models.validate_viewpoint_status raises
\* ValueError, which no handler catches, so the caller receives 500
\* "Internal Server Error".  get_image_tile wraps its body, gate included,
\* in "except Exception" and re-raises 500 "Failed to fetch tile for
\* image. {err}".
respond(impl, endpoint, current_status) ==
    LET gate == Gate(impl, current_status, ApiNameOf(endpoint))
    IN  IF gate = "pass" THEN HttpResponse(200, NULL, NULL)
        ELSE IF endpoint = "tile" THEN GateDetail(500, gate, ApiNameOf(endpoint))
        ELSE IF impl = "routers"
             THEN GateDetail(IF gate = "deleted" THEN 404 ELSE 400, gate, ApiNameOf(endpoint))
             ELSE HttpResponse(500, NULL, NULL)

call_endpoint ==
    /\ endpoint_response = NoHttpResponse
    /\ endpoint_response' = respond(endpoint_request.impl, endpoint_request.endpoint,
                                    endpoint_request.status)
    /\ UNCHANGED <<endpoint_request, besidesEndpoint>>

InitEndpoint ==
    /\ LifecycleIdle
    /\ GateIdle
    /\ PoolIdle
    /\ ListIdle
    /\ TileIdle
    /\ DownloadIdle
    /\ PyramidIdle
    /\ CacheIdle
    /\ FleetIdle
    /\ RunIdle
    /\ RaceIdle
    /\ endpoint_request \in [impl : {"models", "routers"}, endpoint : GatedEndpoints,
                              status : ViewpointStatus]
    /\ endpoint_response = NoHttpResponse

NextEndpoint == call_endpoint

SpecEndpoint == InitEndpoint /\ [][NextEndpoint]_vars

TypeOK ==
    /\ api \in {"routers", "router"}
    /\ nextMsg \in 1..(MaxMsgs + 1)
    /\ now \in 0..MaxNow
    /\ \A id \in Ids : disk[id] \subseteq {"image", "ovr", "sidecar"}
    /\ delivered \subseteq Mids
    /\ \A m \in queue \cup dlq : m.mid \in Mids /\ m.mid < nextMsg

\* The liveness specification keeps the steps that can change the status of
\* a record or the content of a queue.  The read-only requests, the update
\* request (it rewrites viewpoint_name on a record that passed the gate) and
\* the clock leave both untouched.
WorkerPersists ==
    \E m \in queue, i \in WorkerInputs :
        /\ i.ack # "update_raises"
        /\ ~sidecar_escapes(i.dl)
        /\ outcomes_met(m, i)
        /\ process_message(m, i.dl, i.ovrS3, i.tileOk, i.metaOk, i.ack)

DlqCleanup == \E m \in dlq : lambda_handler(m)

NextLive ==
    \/ \E id \in Ids, name \in CreateNames, enqOk \in BOOLEAN : create_viewpoint(id, name, enqOk)
    \/ \E id \in Ids : ViewpointRouter_delete_viewpoint(id)
    \/ \E id \in Ids : delete_viewpoint(id)
    \/ \E m \in queue, i \in WorkerInputs :
          /\ outcomes_met(m, i)
          /\ process_message(m, i.dl, i.ovrS3, i.tileOk, i.metaOk, i.ack)
    \/ \E m \in queue : Redrive(m)
    \/ \E m \in dlq : lambda_handler(m)

\* The worker keeps polling and the table eventually accepts its update; the
\* dead-letter lambda is invoked for every message that reaches its queue.
LiveSpec == Init /\ [][NextLive]_vars /\ WF_vars(WorkerPersists) /\ WF_vars(DlqCleanup)

\* ------------------------------------------------------------------------
\* properties
\* ------------------------------------------------------------------------

\* C1: the gate answers a DELETED status with the "already been deleted"
\* reason and a REQUESTED status with the "not in READY state, try again
\* later" reason, for every API name and in both implementations; the two
\* reasons are never exchanged, and READY and UPDATING are never rejected.
C1_GateReasons ==
    v_out # "idle" =>
        /\ v_in.status = "DELETED" => v_out = "deleted"
        /\ v_in.status = "REQUESTED" => v_out = "not_ready"
        /\ v_in.status \in {"READY", "UPDATING"} => v_out = "pass"

C1_Witness ==
    /\ v_out = "deleted"
    /\ v_in.status = "DELETED"
    /\ v_in.op = "tile"
    /\ v_in.impl = "models"

\* C2: every metadata, bounds, info, statistics, preview, tile and crop
\* request on a viewpoint whose stored status is FAILED is rejected by the
\* state check, so that no sidecar file is served and no tile factory is
\* checked out.
C2_FailedRejected ==
    (resp.op \in ImageOps /\ table[resp.id].viewpoint_status = "FAILED")
        => resp.outcome \in {"deleted", "not_ready"}

\* C3: a message handed to the worker again after its first delivery moved
\* the record to READY runs no stage, updates nothing in the table and is
\* deleted from the queue.
C3_RedeliveryNoOp ==
    (wlast.kind # "none" /\ wlast.redelivery /\ wlast.before = "READY")
        => /\ wlast.ran = {}
           /\ ~wlast.persisted
           /\ \A m \in queue : m.mid # wlast.mid

C5_AlwaysPersistedAndDeleted ==
    [][(wlast'.kind = "processed" /\ wlast'.stage_failed)
        => /\ table'[wlast'.id].viewpoint_status = "FAILED"
           /\ table'[wlast'.id].error_message # NULL
           /\ table'[wlast'.id].expire_time = now' + FailedTtlDays
           /\ \A m \in queue' : m.mid # wlast'.mid]_vars

\* C5 as amended: whenever an ingestion stage failed, the worker hands the
\* table update a record with status FAILED, a non-null error_message and
\* expire_time = now + 1 day; when the update returns that record is the
\* stored one, and when message.delete() then returns the message is off
\* the queue; the worker step never adds a message to either queue.
C5_FailurePersisted ==
    [][(wlast'.kind = "processed" /\ wlast'.stage_failed)
        => /\ wlast'.written.viewpoint_status = "FAILED"
           /\ wlast'.written.error_message # NULL
           /\ wlast'.written.expire_time = now' + FailedTtlDays
           /\ wlast'.persisted => table'[wlast'.id] = wlast'.written
           /\ ~wlast'.persisted => (table' = table /\ ~wlast'.deleted)
           /\ wlast'.deleted => \A m \in queue' : m.mid # wlast'.mid
           /\ queue' \subseteq queue
           /\ dlq' = dlq]_vars

C5_Witness ==
    /\ wlast.kind = "processed"
    /\ wlast.stage_failed
    /\ wlast.persisted
    /\ wlast.deleted
    /\ table[wlast.id].viewpoint_status = "FAILED"
    /\ now > 0
    /\ table[wlast.id].expire_time = now + FailedTtlDays

C7_DeletionFinality ==
    (resp.op \in ImageOps \cup {"update"} /\ resp.id \in was_deleted)
        => resp.outcome = "deleted"

\* C8: after the delete handler succeeded on a READY viewpoint the item is
\* still in the table, complete, with status DELETED, a null
\* local_object_path and a non-null expire_time.
C8_SoftDelete ==
    [][(resp'.op = "delete" /\ resp'.outcome \in {"200", "201", "204"}
        /\ table[resp'.id].viewpoint_status = "READY")
        => /\ IsComplete(table'[resp'.id])
           /\ table'[resp'.id].viewpoint_status = "DELETED"
           /\ table'[resp'.id].local_object_path = NULL
           /\ table'[resp'.id].expire_time # NoTime]_vars

\* C9: an update or delete request on a viewpoint whose stored status is
\* FAILED is accepted and completes without error, whatever its
\* local_object_path.
C9_FailedUpdateDelete ==
    [][(resp'.op \in {"update", "delete"}
        /\ table[resp'.id].viewpoint_status = "FAILED")
        => resp'.outcome \in {"200", "201", "204"}]_vars

\* C10: after a create whose enqueue failed the inserted record stays in
\* status REQUESTED for ever.
C10_StrandedForever ==
    [][\A id \in Ids :
        (id \in enqueue_failed /\ table[id].viewpoint_status = "REQUESTED")
            => table'[id].viewpoint_status = "REQUESTED"]_vars

\* C11 as stated: a checkout that directly follows the checkin of the handle
\* returned by the checkout before it, with no other checkout in between,
\* returns that same handle and loads no dataset.
C11_SameHandle ==
    \A t \in Threads :
        thr[t].round # "none" => (thr[t].pc = "body" /\ thr[t].tf = thr[t].prev)

\* C11 as amended: such a checkout loads no dataset and total_inventory stays
\* as it was; it returns the oldest idle handle, which is the handle just
\* checked in whenever the idle list was empty at that checkin.
C11_RoundTrip ==
    \A t \in Threads :
        thr[t].round # "none"
            => /\ thr[t].pc = "body"
               /\ thr[t].tf # NoHandle
               /\ thr[t].round = "alone" => thr[t].tf = thr[t].prev

C11_Witness ==
    \E t \in Threads :
        /\ thr[t].round = "alone"
        /\ thr[t].pc = "body"
        /\ thr[t].tf = thr[t].prev
        /\ \E u \in Threads \ {t} : thr[u].pc = "body"

\* C12: when the with block of checkout_in_context ends, by return or by
\* exception, the borrowed handle is appended to the idle list; when loading
\* the dataset fails the exception reaches the caller and the idle list and
\* total_inventory are as they were.
C12_ScopedCheckin ==
    [][\A t \in Threads :
        /\ (thr[t].pc = "body" /\ thr'[t].pc = "idle")
            => /\ current_inventory' = Append(current_inventory, thr[t].tf)
               /\ thr'[t].last \in {"returned", "raised"}
        /\ (thr[t].pc = "open" /\ thr'[t].pc = "idle")
            => /\ thr'[t].last = "open_failed"
               /\ current_inventory' = current_inventory
               /\ total_inventory' = total_inventory]_vars

C12_Witness ==
    /\ \E t \in Threads : thr[t].last = "raised"
    /\ \E t \in Threads : thr[t].last = "open_failed"
    /\ current_inventory # <<>>

\* C13 as stated: a limit that does not grow with the number of threads caps
\* the handles one pool opens, so that with every thread checking out at the
\* same time fewer handles are opened than there are threads.
C13_FixedLimit == opened < NumThreads

\* C13 as amended: the handles one pool has opened never outnumber the
\* threads that were inside checkout_in_context at the same time, and
\* total_inventory never exceeds the handles opened.
C13_BoundedByConcurrency ==
    /\ opened <= peak
    /\ peak <= NumThreads
    /\ total_inventory <= opened

C13_Witness ==
    /\ opened = NumThreads
    /\ total_inventory = NumThreads
    /\ Len(current_inventory) = NumThreads

\* C14: for every table content and every limit k >= 1, the pages obtained
\* by listing with limit k and following next_token until none is returned
\* hold exactly the non-deleted records, in scan order and without
\* duplicates, the same as one listing with neither limit nor token.
C14_PaginationExhaustive ==
    (l_pc = "done" /\ max_results >= 1) =>
        LET one == get_viewpoints(ddb_items, NoLimit, NoKey)
        IN  /\ one.status = 200
            /\ listed = one.items
            /\ listed = SelectSeq(ddb_items, LAMBDA it : it.viewpoint_status # "DELETED")
            /\ \A i, j \in 1..Len(listed) :
                  i # j => listed[i].viewpoint_id # listed[j].viewpoint_id

C14_Witness ==
    /\ l_pc = "done"
    /\ max_results >= 1
    /\ Len(ddb_items) > max_results
    /\ Len(listed) >= 2
    /\ Len(listed) < Len(ddb_items)

\* C16: a follow-up list call rejects its token with "invalid" when it
\* cannot be decrypted or split into key, expiration and version, with
\* "expired" when its expiration is in the past, and with "not compatible"
\* when it was issued for another endpoint version; a rejected token never
\* reaches the status table.
C16_TokenRejections ==
    LET tok == l_resp.tok
        decodes == tok.sealed /\ Len(tok.plain) = 3 /\ tok.plain[2] # NoTime
    IN  tok # NoToken =>
            /\ ~decodes => l_resp.status = 400 /\ l_resp.detail = "invalid"
            /\ (decodes /\ tok.plain[2] < l_resp.at) =>
                   l_resp.status = 400 /\ l_resp.detail = "expired"
            /\ (decodes /\ tok.plain[2] >= l_resp.at /\ tok.plain[3] # EndpointVersion) =>
                   l_resp.status = 400 /\ l_resp.detail = "not_compatible"
            /\ l_resp.status = 400 => ~l_resp.scanned
            /\ (decodes /\ tok.plain[2] >= l_resp.at /\ tok.plain[3] = EndpointVersion) =>
                   l_resp.scanned

C16_Witness ==
    /\ l_resp.tok # NoToken
    /\ l_resp.tok.sealed
    /\ Len(l_resp.tok.plain) = 3
    /\ l_resp.detail = "expired"
    /\ l_resp.tok.plain[3] = EndpointVersion
    /\ ~l_resp.scanned

\* C15: when the download of the image fails, the record the worker stores
\* for the message is FAILED and its error_message is the one of the
\* download: the bucket does not exist for a 404, no permission for a 403,
\* the wrapped message for any other exception.
C15_CauseInMessage ==
    [][\A m \in queue, i \in AllWorkerInputs :
         (/\ download_s3_file_to_local_tmp(i.dl) # NULL
          /\ i.ack # "update_raises"
          /\ should_process(m, table)
          /\ process_message(m, i.dl, i.ovrS3, i.tileOk, i.metaOk, i.ack))
         => /\ table'[m.viewpoint_id].viewpoint_status = "FAILED"
            /\ table'[m.viewpoint_id].error_message = download_s3_file_to_local_tmp(i.dl)]_vars

\* C19: for a message whose body carries a status other than REQUESTED,
\* _process_message runs no stage, leaves the table and the files alone and
\* does not delete the message.
C19_NotRequestedSkipped ==
    [][\A m \in queue, i \in AllWorkerInputs :
         (/\ m.body.viewpoint_status # "REQUESTED"
          /\ process_message(m, i.dl, i.ovrS3, i.tileOk, i.metaOk, i.ack))
         => /\ wlast'.kind = "skipped"
            /\ wlast'.ran = {}
            /\ table' = table
            /\ disk' = disk
            /\ queue' = queue]_vars

C19_Witness ==
    /\ wlast.kind = "skipped"
    /\ \E m \in queue : m.mid = wlast.mid /\ m.body.viewpoint_status = "READY"

\* C20: the worker deletes a message only after the table update for that
\* message returned; when the update raises, the message is not deleted and
\* stays on the queue for redelivery.
C20_DeleteAfterUpdate ==
    [][wlast'.kind # "none" =>
         /\ \A m \in queue \ queue' :
               /\ wlast'.mid = m.mid
               /\ wlast'.persisted
               /\ table'[m.viewpoint_id] = wlast'.written
         /\ (wlast'.kind = "processed" /\ ~wlast'.persisted) =>
               /\ queue' = queue
               /\ table' = table]_vars

C20_Witness ==
    /\ wlast.kind = "processed"
    /\ ~wlast.persisted
    /\ \E m \in queue : m.mid = wlast.mid

\* C17: a tile request with z >= 0 reads the source window
\* [x*tileSize*2^z, y*tileSize*2^z, tileSize*2^z, tileSize*2^z] and asks
\* for an output of tileSize x tileSize; (z=1, x=0, y=0, 256) reads
\* [0,0,512,512] and (z=0, x=2, y=1, 256) reads [512,256,256,256].
C17_TileWindow ==
    LET r == tile_request
        side == r.tile_size * 2^r.z
    IN  (tile_call # NoTileCall /\ r.z >= 0) =>
            /\ tile_call.status = 200
            /\ tile_call.src_window = <<r.x * side, r.y * side, side, side>>
            /\ tile_call.output_size = <<r.tile_size, r.tile_size>>
            /\ r = [z |-> 1, x |-> 0, y |-> 0, tile_size |-> 256]
                  => tile_call.src_window = <<0, 0, 512, 512>>
            /\ r = [z |-> 0, x |-> 2, y |-> 1, tile_size |-> 256]
                  => tile_call.src_window = <<512, 256, 256, 256>>

C17_Witness ==
    /\ tile_request = [z |-> 1, x |-> 0, y |-> 0, tile_size |-> 256]
    /\ tile_call.status = 200
    /\ tile_call.src_window = <<0, 0, 512, 512>>
    /\ tile_call.output_size = <<256, 256>>

\* C18: a request to a gated endpoint (metadata, bounds, info, statistics,
\* preview, tile, crop, update, delete) on a REQUESTED or DELETED viewpoint
\* is answered with a 4xx status and a message that names the operation
\* and the reason.
C18_RejectedIs4xx ==
    (/\ endpoint_response # NoHttpResponse
     /\ endpoint_request.status \in {"REQUESTED", "DELETED"})
        => /\ endpoint_response.status_code \in 400..499
           /\ endpoint_response.reason \in {"deleted", "not_ready"}
           /\ endpoint_response.op = ApiNameOf(endpoint_request.endpoint)

\* C21: once an earlier stage marked the item FAILED the later stages are
\* skipped: after a failed download neither the pyramid build nor the
\* metadata extraction runs, and the error_message handed to the table is
\* the one of the first failing stage.
C21_LaterStagesSkipped ==
    [][\A m \in queue, i \in AllWorkerInputs :
         (/\ download_s3_file_to_local_tmp(i.dl) # NULL
          /\ should_process(m, table)
          /\ process_message(m, i.dl, i.ovrS3, i.tileOk, i.metaOk, i.ack))
         => /\ wlast'.ran = {"download"}
            /\ wlast'.written.error_message = download_s3_file_to_local_tmp(i.dl)]_vars

\* C28: when the overview file arrived as a sidecar, the worker does not
\* rebuild the overviews and the viewpoint ends READY if the download and
\* the metadata extraction succeed.
C28_OverviewPresentReady ==
    [][\A m \in queue, i \in AllWorkerInputs :
         (/\ i.dl = "ok" /\ i.ovrS3 /\ i.metaOk /\ i.ack = "ok"
          /\ should_process(m, table)
          /\ process_message(m, i.dl, i.ovrS3, i.tileOk, i.metaOk, i.ack))
         => table'[m.viewpoint_id].viewpoint_status = "READY"]_vars

\* C30: the optional sidecars are downloaded only after the primary
\* download succeeded, and a failing sidecar download changes neither the
\* status nor the error_message and does not stop the rest of the pipeline.
C30_SidecarBestEffort ==
    [][\A m \in queue, i \in AllWorkerInputs :
         (/\ should_process(m, table)
          /\ process_message(m, i.dl, i.ovrS3, i.tileOk, i.metaOk, i.ack))
         => /\ download_s3_file_to_local_tmp(i.dl) # NULL =>
                  download_image(Stage(m.body, disk[m.viewpoint_id]), i.dl, TRUE).files
                      = disk[m.viewpoint_id]
            /\ download_s3_file_to_local_tmp(i.dl) = NULL =>
                  /\ wlast'.kind = "processed"
                  /\ wlast'.ran = {"download", "pyramid", "metadata"}]_vars

\* C23: every change of a stored record's status is REQUESTED to READY,
\* REQUESTED to FAILED, READY to UPDATING, UPDATING to READY, READY to
\* DELETED or FAILED to DELETED; none goes from READY to FAILED, from READY
\* or FAILED back to REQUESTED, or out of DELETED.
C23_StateMachine ==
    [][\A id \in Ids :
         (/\ table[id] # ABSENT
          /\ table'[id] # ABSENT
          /\ table'[id].viewpoint_status # table[id].viewpoint_status)
         => <<table[id].viewpoint_status, table'[id].viewpoint_status>> \in
                {<<"REQUESTED", "READY">>, <<"REQUESTED", "FAILED">>,
                 <<"READY", "UPDATING">>, <<"UPDATING", "READY">>,
                 <<"READY", "DELETED">>, <<"FAILED", "DELETED">>}]_vars

\* C22: download_file is called at most 3 times per message; a ClientError
\* (404, 403 or another code) ends the attempts at once with FAILED,
\* another exception is retried until the third attempt, and a success on
\* any attempt returns neither a status nor an error message, whatever the
\* attempts before it raised.
C22_RetryPolicy ==
    LET stops == {n \in 1..max_retries : attempt_outcomes[n] # "exception"}
        first == IF stops = {} THEN max_retries
                 ELSE CHOOSE n \in stops : \A k \in stops : n <= k
    IN  /\ dl_calls <= max_retries
        /\ dl_result.returned =>
              /\ dl_calls = first
              /\ attempt_outcomes[first] = "ok" =>
                    (dl_result.viewpoint_status = NULL /\ dl_result.error_message = NULL)
              /\ attempt_outcomes[first] # "ok" =>
                    /\ dl_result.viewpoint_status = "FAILED"
                    /\ dl_result.error_message =
                          download_s3_file_to_local_tmp(attempt_outcomes[first])

C22_Witness ==
    /\ dl_result.returned
    /\ attempt_outcomes[1] = "exception"
    /\ attempt_outcomes[2] = "exception"
    /\ attempt_outcomes[3] = "ok"
    /\ dl_calls = 3
    /\ dl_result.viewpoint_status = NULL

C25_ExclusiveHandles ==
    \A h \in 1..opened :
        /\ Cardinality(holders(h)) <= 1
        /\ Cardinality(idle_positions(h)) <= 1
        /\ Cardinality(holders(h)) + Cardinality(idle_positions(h)) = 1

C25_Witness ==
    /\ opened = NumThreads
    /\ \E h \in 1..opened : holders(h) # {} /\ thr[CHOOSE t \in holders(h) : TRUE].round # "none"
    /\ \E h \in 1..opened : idle_positions(h) # {}

\* C26: the pool lock is not held while a dataset is opened: while one
\* thread is in load_gdal_dataset the lock is free, so that the checkin of
\* another thread and its checkout of an idle tile factory can take place
\* at once, and every thread that is inside checkout leaves it.
C26_OpenOutsideLock ==
    /\ [](\A t \in Threads : thr[t].pc = "open" =>
            /\ lock = NoThread
            /\ \A u \in Threads \ {t} :
                 /\ thr[u].pc = "body" => ENABLED checkout_in_context_exit(u, FALSE)
                 /\ (thr[u].pc = "idle" /\ current_inventory # <<>>) => ENABLED checkout(u))
    /\ \A t \in Threads :
         (thr[t].pc \in {"open", "count"}) ~> (thr[t].pc \in {"body", "idle"})

\* One thread is loading a dataset, having found the idle list empty, and
\* the idle list holds a tile factory checked in since.
C26_Witness ==
    /\ \E t \in Threads : thr[t].pc = "open"
    /\ current_inventory # <<>>
    /\ lock = NoThread

\* C27 as stated: whenever a call of get_tile_factory_pool returns, and the
\* key of the call has been cached and not evicted since, the pool returned
\* is the pool that the call which cached the key returned.
C27_SameInstance ==
    [][(cache_resp' # cache_resp /\ ret_of[cache_resp'.key] # NoPool)
        => cache_resp'.pool = ret_of[cache_resp'.key]]_vars

\* C27 as amended: a call that finds its key cached returns the pool that
\* the call which cached the key returned; a call that misses returns a new
\* pool, which is cached unless the key was cached while the pool was made;
\* the cache never holds more than maxsize pools nor one key twice, and a
\* store into a full cache evicts the key whose latest use is the oldest and
\* evicts nothing otherwise.
C27_CachedInstance ==
    [][/\ Len(lru') <= maxsize
       /\ Cardinality(cached_keys(lru')) = Len(lru')
       /\ cache_resp' # cache_resp =>
            LET r == cache_resp'
            IN  /\ r.hit => (r.pool = ret_of[r.key] /\ r.pool # NoPool
                             /\ cached_keys(lru') = cached_keys(lru))
                /\ ~r.hit => r.pool = made'
                /\ (~r.hit /\ r.key \notin cached_keys(lru)) =>
                     /\ ret_of'[r.key] = r.pool
                     /\ cached_keys(lru') = (cached_keys(lru) \ {r.evicted}) \cup {r.key}
                     /\ Len(lru) < maxsize => r.evicted = NoKeyCached
                     /\ Len(lru) = maxsize =>
                          /\ r.evicted \in cached_keys(lru)
                          /\ \A k \in cached_keys(lru) : used_at[r.evicted] <= used_at[k]]_vars

\* The 21st key has been stored into the full cache, after a hit on the key
\* cached first: that key is still cached and a key used less recently was
\* evicted.
C27_Witness ==
    /\ Len(lru) = maxsize
    /\ cache_resp.evicted = 2
    /\ cached_keys(lru) = (CacheKeys \ {2})

\* C24: when one request message is delivered to two worker instances, at
\* most one of them performs the download, the pyramid build, the metadata
\* extraction and the table update for it.
C24_AtMostOneWorker ==
    \A w1, w2 \in Workers :
        (fleet[w1].done # {} /\ fleet[w2].done # {}) => w1 = w2

\* C33: in every state of the table a record with status REQUESTED or
\* DELETED has no local_object_path and a READY record has one; a record
\* that the worker stores as FAILED has a local_object_path exactly when the
\* primary download succeeded.
C33_PathIffDownloaded ==
    [][/\ \A id \in Ids :
            /\ table'[id].viewpoint_status \in {"REQUESTED", "DELETED"}
                 => table'[id].local_object_path \in {NULL, MISSING}
            /\ table'[id].viewpoint_status = "READY"
                 => table'[id].local_object_path \notin {NULL, MISSING}
       /\ \A m \in queue, i \in WorkerInputs :
            (/\ process_message(m, i.dl, i.ovrS3, i.tileOk, i.metaOk, i.ack)
             /\ wlast'.persisted
             /\ table'[m.viewpoint_id].viewpoint_status = "FAILED")
                => (table'[m.viewpoint_id].local_object_path # NULL
                       <=> download_s3_file_to_local_tmp(i.dl) = NULL)]_vars

\* C34: in every state of the table the expire_time of a record is set
\* exactly when its status is FAILED or DELETED; a REQUESTED or READY record
\* has none.
C34_ExpireOnlyWhenTerminal ==
    \A id \in Ids :
        table[id] # ABSENT =>
            (table[id].expire_time # NoTime
                <=> table[id].viewpoint_status \in {"FAILED", "DELETED"})

\* C35: the table update of the worker for an id that has no item leaves the
\* table without an item for that id: an update never creates a record.
C35_UpdateNeverCreates ==
    [][(wlast'.kind = "processed" /\ table[wlast'.id] = ABSENT)
        => (table'[wlast'.id] = ABSENT /\ ~wlast'.persisted)]_vars

\* C39: the dead-letter handler writes nothing to the table when the
\* viewpoint_id of its message has no item there, and marks the item FAILED
\* with an expire_time of now plus one day when it exists.
C39_CleanupOnlyExisting ==
    [][\A m \in dlq :
         lambda_handler(m) =>
            IF table[m.viewpoint_id] = ABSENT
            THEN table' = table
            ELSE /\ table'[m.viewpoint_id].viewpoint_status = "FAILED"
                 /\ table'[m.viewpoint_id].expire_time = now + DlqTtlDays]_vars

\* C31: once join() has set the stop signal the loop test that follows ends
\* the loop; the only receive_messages call begun after the signal is the
\* one of the pass whose loop test had already been made; a loop that has
\* ended stays ended, and after the signal the loop does end.
C31_StopEndsLoop ==
    /\ [][/\ (run_pc = "while" /\ stop_event /\ run_pc' # run_pc) => run_pc' = "stopped"
          /\ run_pc = "stopped" => run_pc' = "stopped"]_vars
    /\ [](late_polls <= 1)
    /\ (stop_event ~> run_pc = "stopped")

\* The stop signal was set while a batch was being processed, and the loop
\* has ended with requests left on the queue.
C31_Witness ==
    /\ run_pc = "stopped"
    /\ stop_event
    /\ rq # {}
    /\ \E m \in BatchIds : handled[m] = "done"

\* C38: an exception raised while a message is processed does not end the
\* loop, which ends only by the stop signal: control returns to the loop
\* test, and the message and the messages after it in the batch are still on
\* the queue.
C38_ExceptionKeepsLoop ==
    [][/\ (run_pc' = "stopped" /\ run_pc # "stopped") => (run_pc = "while" /\ stop_event)
       /\ \A outcome \in ProcessOutcomes :
            (run_process_message(outcome) /\ raises(outcome))
                => /\ run_pc' = "while"
                   /\ rq' = rq
                   /\ \A i \in DOMAIN messages : messages[i] \in rq']_vars

\* A message whose processing raised, with a message behind it in the
\* batch, is being processed again in a later batch.
C38_Witness ==
    /\ run_pc = "for"
    /\ messages # <<>>
    /\ handled[Head(messages)] = "raised"
    /\ \E k \in BatchIds : handled[k] = "not_reached" /\ k \in rq

\* C32: the stop signal does not change the outcome of create_tile_pyramid:
\* the call ends FAILED only when one of its own steps fails (the
\* statistics, the opening of the dataset, the sample tile) or an overview
\* file is present, never because the stop signal is set.
C32_StopKeepsOutcome ==
    pyramid_pc = "failed" =>
        \/ ~pyramid_in.tileOk
        \/ pyramid_in.ovr
        \/ (~pyramid_in.idle /\ ~pyramid_in.openOk)
        \/ (~pyramid_in.aux /\ ~pyramid_in.statsOk)

\* C36: when create requests for one new viewpoint_id are served at the same
\* time, one put_item is made, one request is put on the queue and at most
\* one caller is answered 201.
C36_OneCreateWins ==
    (\A r \in Handlers : handler[r].op = "create") =>
        /\ h_puts <= 1
        /\ Cardinality(h_sent) <= 1
        /\ Cardinality({r \in Handlers : handler[r].out = "201"}) <= 1

\* C37: when an update and a delete of a READY viewpoint have both been
\* answered with success, the viewpoint is deleted: its item is DELETED or
\* absent.
C37_DeleteWins ==
    \A u, d \in Handlers :
        (/\ handler[u].op = "update" /\ handler[u].out = "201"
         /\ handler[d].op = "delete" /\ handler[d].out \in {"200", "204"})
            => h_table[RaceId].viewpoint_status \in {"DELETED", "ABSENT"}

====
